---- MODULE Spec2Model ----
(***************************************************************************)
(* A model of the phylo tree engine (src/src/phy.c): the node heap, the    *)
(* Newick reader and writer, phy_build, the traversal cursor, and the      *)
(* operations phy_node_mrca, phy_node_spanning_pair, phy_extract_subtree   *)
(* and phy_reroot.                                                         *)
(*                                                                         *)
(* Pointers are node ids (positions in the heap sequence), 0 is the null   *)
(* pointer.  C strings are sequences of one-character strings; the null    *)
(* char* is NullStr.  Memory allocation is taken to succeed.               *)
(***************************************************************************)
EXTENDS Integers, Sequences, FiniteSets, TLC

(***************************************************************************)
(* Bounds of the explored inputs.                                          *)
(***************************************************************************)
MaxLen == 10     \* longest input string, the terminating ';' included
MaxLabel == 1    \* longest label in an input string
MaxNote == 1     \* longest note text in an input string
MaxBrlen == 4    \* longest branch length literal in an input string
MaxRead == 5     \* most nodes an input string describes
MaxNodes == 6    \* largest node graph assembled by hand
MaxPairNodes == 5  \* largest node graph two clients walk at a time
MaxTips == 5     \* most tips of a tree an operation is called on
MaxRotate == 2   \* most nodes in a list handed to phy_node_rotate
MaxCalls == 5    \* most calls of a client that reads and asks for errors

(***************************************************************************)
(* Characters.                                                             *)
(***************************************************************************)
NUL == "NUL"
NullStr == <<NUL>>
\* ' ', \n, \r, \v, \t, \f (the vertical tab is written "VT")
Whitespace == {" ", "\n", "\r", "VT", "\t", "\f"}
Digits == {"0", "1", "2", "3", "4", "5", "6", "7", "8", "9"}
\* an explored input is a string with notes or a string with branch lengths
NoteAlphabet == {"(", ")", ",", ";", "A", "[", "]", " "}
LengthAlphabet == {"(", ")", ",", ";", "A", ":", "9", "e", "-"}
\* the characters the explored inputs have in a label, a note, a length
LabelChars == {"A"}
NoteChars == {"A", "[", "]"}
BrlenChars == {"9", "e", "-"}

PHY_OK == 0
PHY_ERR == 1
PREORDER == 0
POSTORDER == 1
ALL_NODES == 0
INTERNAL_NODES_ONLY == 1

(***************************************************************************)
(* Branch lengths.  A double is modelled by the decimal m * 10^x with m    *)
(* not divisible by 10 (zero is m = 0, x = 0); an infinity has x = InfExp. *)
(***************************************************************************)
InfExp == 9999
Zero == [m |-> 0, x |-> 0]
PosInf == [m |-> 1, x |-> InfExp]
NegInf == [m |-> -1, x |-> InfExp]

Abs(i) == IF i < 0 THEN -i ELSE i

RECURSIVE Pow10(_)
Pow10(k) == IF k <= 0 THEN 1 ELSE 10 * Pow10(k - 1)

RECURSIVE NumDigits(_)
NumDigits(i) == IF i < 10 THEN 1 ELSE 1 + NumDigits(i \div 10)

RECURSIVE Norm(_, _)
Norm(m, x) ==
    IF m = 0 THEN Zero
    ELSE IF m % 10 = 0 THEN Norm(m \div 10, x + 1)
    ELSE [m |-> m, x |-> x]

\* decimal order of magnitude: 10^(Mag-1) <= |v| < 10^Mag
Mag(v) == NumDigits(Abs(v.m)) + v.x

IsInf(v) == v.x = InfExp
IsPos(v) == v.m > 0

DigitVal(c) ==
    CASE c = "0" -> 0 [] c = "1" -> 1 [] c = "2" -> 2 [] c = "3" -> 3
      [] c = "4" -> 4 [] c = "5" -> 5 [] c = "6" -> 6 [] c = "7" -> 7
      [] c = "8" -> 8 [] c = "9" -> 9

DigitChar(d) ==
    CASE d = 0 -> "0" [] d = 1 -> "1" [] d = 2 -> "2" [] d = 3 -> "3"
      [] d = 4 -> "4" [] d = 5 -> "5" [] d = 6 -> "6" [] d = 7 -> "7"
      [] d = 8 -> "8" [] d = 9 -> "9"

\* first position >= i of z that does not hold a digit
RECURSIVE SpanDigits(_, _)
SpanDigits(z, i) ==
    IF i <= Len(z) /\ z[i] \in Digits THEN SpanDigits(z, i + 1) ELSE i

\* value of a digit string without leading zeros
RECURSIVE DigitsVal(_)
DigitsVal(d) ==
    IF d = <<>> THEN 0
    ELSE 10 * DigitsVal(SubSeq(d, 1, Len(d) - 1)) + DigitVal(d[Len(d)])

RECURSIVE StripLead(_)
StripLead(d) ==
    IF d # <<>> /\ d[1] = "0" THEN StripLead(Tail(d)) ELSE d

RECURSIVE StripTrail(_)
StripTrail(d) ==
    IF d # <<>> /\ d[Len(d)] = "0" THEN StripTrail(SubSeq(d, 1, Len(d) - 1))
    ELSE d

(***************************************************************************)
(* atof: the longest prefix [sign] digits [. digits] [e [sign] digits] of  *)
(* z is converted; no digits at all gives 0.  Values beyond the range of   *)
(* a double become an infinity or zero.                                    *)
(***************************************************************************)
atof(z) ==
    LET s == IF z # <<>> /\ z[1] \in {"-", "+"} THEN 2 ELSE 1
        neg == z # <<>> /\ z[1] = "-"
        a == SpanDigits(z, s)
        hasdot == a <= Len(z) /\ z[a] = "."
        b == IF hasdot THEN SpanDigits(z, a + 1) ELSE a
        ipart == SubSeq(z, s, a - 1)
        fpart == IF hasdot THEN SubSeq(z, a + 1, b - 1) ELSE <<>>
        hase == b <= Len(z) /\ z[b] = "e"
        es == IF hase /\ b + 1 <= Len(z) /\ z[b + 1] \in {"-", "+"}
              THEN b + 2 ELSE b + 1
        eneg == hase /\ b + 1 <= Len(z) /\ z[b + 1] = "-"
        ee == IF hase THEN SpanDigits(z, es) ELSE es
        edig == IF hase THEN StripLead(SubSeq(z, es, ee - 1)) ELSE <<>>
        ev == IF Len(edig) > 6 THEN 1000000 ELSE DigitsVal(edig)
        expo == IF eneg THEN -ev ELSE ev
        all == StripLead(ipart \o fpart)
        sig == StripTrail(all)
        mant == DigitsVal(sig)
        x == expo - Len(fpart) + (Len(all) - Len(sig))
        v == Norm(IF neg THEN -mant ELSE mant, x)
    IN  IF ipart \o fpart = <<>> \/ mant = 0 THEN Zero
        ELSE IF Mag(v) > 309 \/ (Mag(v) = 309 /\ Len(sig) >= 1
                                  /\ DigitVal(sig[1]) >= 2)
             THEN (IF neg THEN NegInf ELSE PosInf)
        ELSE IF Mag(v) < -323 THEN Zero
        ELSE v

RECURSIVE DigitsOf(_)
DigitsOf(i) ==
    IF i < 10 THEN <<DigitChar(i)>>
    ELSE DigitsOf(i \div 10) \o <<DigitChar(i % 10)>>

RECURSIVE Zeros(_)
Zeros(k) == IF k <= 0 THEN <<>> ELSE <<"0">> \o Zeros(k - 1)

PadLeft(d, k) == Zeros(k - Len(d)) \o d

\* m / 10^k rounded to the nearest integer, ties to even
RoundDiv(m, k) ==
    IF k > 9 THEN 0
    ELSE LET p == Pow10(k)
             q == m \div p
             r == m % p
         IN  IF 2 * r > p \/ (2 * r = p /\ q % 2 = 1) THEN q + 1 ELSE q

(***************************************************************************)
(* The text sprintf("%f") prints for a finite positive v: the integer      *)
(* digits, a point and six decimals.                                       *)
(***************************************************************************)
FormatF(v) ==
    IF v.x >= 0 THEN DigitsOf(v.m) \o Zeros(v.x) \o <<".">> \o Zeros(6)
    ELSE IF -v.x <= 6
    THEN LET p == Pow10(-v.x)
         IN  DigitsOf(v.m \div p) \o <<".">>
               \o PadLeft(DigitsOf(v.m % p), -v.x) \o Zeros(6 + v.x)
    ELSE LET u == RoundDiv(v.m, -v.x - 6)
         IN  DigitsOf(u \div 1000000) \o <<".">>
               \o PadLeft(DigitsOf(u % 1000000), 6)

(***************************************************************************)
(* The node heap.  heap[id] is a struct phy_node; st tells whether the     *)
(* block is still allocated ("live") or has been passed to free.           *)
(***************************************************************************)
node_new(h) ==
    Append(h, [st |-> "live", index |-> -1, ndesc |-> 0, lab |-> NullStr,
               note |-> NullStr, lfdesc |-> 0, next |-> 0, prev |-> 0,
               anc |-> 0, lastvisit |-> 0, brlen |-> Zero])

\* the node reached from r by following k next links
RECURSIVE NthNext(_, _, _)
NthNext(h, r, k) == IF k = 0 THEN r ELSE NthNext(h, h[r].next, k - 1)

\* the end of the sibling list that holds r
RECURSIVE LastSib(_, _)
LastSib(h, r) == IF h[r].next = 0 THEN r ELSE LastSib(h, h[r].next)

phy_node_add_child(h, parent, child) ==
    LET nd == h[parent].ndesc
        r == IF nd = 0 THEN 0
             ELSE IF nd <= 5 THEN NthNext(h, h[parent].lfdesc, nd - 1)
             ELSE LastSib(h, h[parent].lfdesc)
        h1 == IF nd = 0
              THEN [h EXCEPT ![parent].lfdesc = child, ![child].prev = 0]
              ELSE [h EXCEPT ![r].next = child, ![child].prev = r]
    IN  [h1 EXCEPT ![parent].ndesc = nd + 1, ![child].anc = parent]

(***************************************************************************)
(* The Newick reader.  A reader state holds struct newick_reader (ctx),    *)
(* the heap and phy_errno, and the place the reader is at: site is the     *)
(* statement that reads the next character,                                *)
(*   "main"   the while loop of read_newick,                               *)
(*   "label"  the loop of read_label,                                      *)
(*   "note0"  the first read of read_note,  "note"  its loop condition,    *)
(*   "brlen0" the first read of read_brlen, "brlen" its loop,              *)
(* or how read_newick ended: "ret" (ret holds the returned node, 0 for     *)
(* NULL) or "crash" (a store through the unallocated buffer z).            *)
(***************************************************************************)
ZChunk == 100

ReaderInit(h, e) ==
    [n |-> 0, nAlloc |-> 0, cursor |-> 0, ntip |-> 0, nnode |-> 0,
     z |-> <<>>, q |-> 0, p |-> 0, root |-> 0,
     site |-> "start", opened |-> 0, ret |-> 0, heap |-> h, errno |-> e]

Fail(r, e) == [r EXCEPT !.site = "ret", !.ret = 0, !.errno = e]

\* if (ctx->n == ctx->nAlloc) realloc; ctx->z[ctx->n++] = c
PutChar(r, c) ==
    [r EXCEPT !.nAlloc = IF r.n = r.nAlloc THEN r.nAlloc + ZChunk
                         ELSE r.nAlloc,
              !.z = Append(r.z, c), !.n = r.n + 1]

\* read_newick up to its loop: the terminator test and the root node
ReadStart(r, terminated) ==
    IF ~terminated THEN Fail(r, 4)
    ELSE LET id == Len(r.heap) + 1
         IN  [r EXCEPT !.nnode = r.nnode + 1, !.heap = node_new(r.heap),
                       !.root = id, !.p = id, !.site = "main"]

\* one pass of the while loop of read_newick on the character c
ReadMain(r, c, newick) ==
    LET h == r.heap
        p == r.p
        id == Len(h) + 1
    IN  CASE c = ";" ->
               IF h[p].ndesc < 2 THEN Fail(r, 3)
               ELSE [r EXCEPT !.site = "ret", !.ret = p]
          [] c = "(" ->
               IF r.cursor > 1 /\ ~(newick[r.cursor - 1] \in {",", "("})
               THEN Fail(r, 4)
               ELSE [r EXCEPT !.nnode = r.nnode + 1, !.q = id, !.p = id,
                       !.heap = phy_node_add_child(node_new(h), p, id)]
          [] c = "," ->
               LET r1 == [r EXCEPT !.nnode = r.nnode + 1]
               IN  IF h[p].anc = 0 /\ p # r.root
                   THEN Fail([r1 EXCEPT !.heap[p].st = "freed"], 4)
                   ELSE IF p = r.root THEN Fail(r1, 4)
                   ELSE [r1 EXCEPT !.q = id, !.p = id,
                           !.heap = phy_node_add_child(node_new(h),
                                                       h[p].anc, id),
                           !.ntip = IF h[p].ndesc = 0 THEN r.ntip + 1
                                    ELSE r.ntip]
          [] c = ")" ->
               LET r1 == [r EXCEPT !.ntip = IF h[p].ndesc = 0
                                            THEN r.ntip + 1 ELSE r.ntip]
               IN  IF h[p].anc = 0 /\ p # r.root
                   THEN Fail([r1 EXCEPT !.heap[p].st = "freed"], 4)
                   ELSE IF p = r.root THEN Fail(r1, 4)
                   ELSE IF h[h[p].anc].ndesc < 2
                        THEN Fail([r1 EXCEPT !.p = h[p].anc], 3)
                   ELSE [r1 EXCEPT !.p = h[p].anc]
          [] OTHER ->
               [r EXCEPT !.cursor = r.cursor - 1, !.site = "label"]

\* one pass of the loop of read_label, and what follows the loop
ReadLabel(r, c) ==
    IF c \in {":", ",", ")", ";", "["}
    THEN IF r.n >= r.nAlloc THEN [r EXCEPT !.site = "crash"]
         ELSE [r EXCEPT !.cursor = r.cursor - 1,
                 !.heap[r.p].lab = IF r.n > 0 THEN r.z ELSE @,
                 !.n = 0, !.z = <<>>, !.site = "note0"]
    ELSE IF c \in Whitespace \cup {"(", "]"} THEN Fail(r, 2)
    ELSE IF c = NUL THEN Fail(r, 4)
    ELSE PutChar(r, c)

\* ctx->z[ctx->n] = 0; if (ctx->n) ctx->p->brlen = atof(ctx->z); ctx->n = 0
EndBrlen(r) ==
    IF r.n >= r.nAlloc THEN [r EXCEPT !.site = "crash"]
    ELSE [r EXCEPT !.heap[r.p].brlen = IF r.n > 0 THEN atof(r.z) ELSE @,
            !.n = 0, !.z = <<>>, !.site = "main"]

\* the first read of read_note
ReadNote0(r, c) ==
    IF c = "[" THEN [r EXCEPT !.opened = 1, !.site = "note"]
    ELSE [r EXCEPT !.cursor = r.cursor - 1, !.site = "brlen0"]

\* while ((c = ctx->newick[ctx->cursor++]), opened > 0): c has been read
\* and the cursor advanced when opened is tested
ReadNote(r, c) ==
    IF r.opened > 0
    THEN IF c = NUL THEN Fail(r, 4)
         ELSE LET o == IF c = "[" THEN r.opened + 1
                       ELSE IF c = "]" THEN r.opened - 1
                       ELSE r.opened
              IN  IF o # 0 THEN PutChar([r EXCEPT !.opened = o], c)
                  ELSE [r EXCEPT !.opened = o]
    ELSE IF r.n >= r.nAlloc THEN [r EXCEPT !.site = "crash"]
    ELSE [r EXCEPT !.heap[r.p].note = IF r.n > 0 THEN r.z ELSE @,
            !.n = 0, !.z = <<>>, !.site = "brlen0"]

\* the first read of read_brlen
ReadBrlen0(r, c) ==
    IF c = ":" THEN [r EXCEPT !.site = "brlen"]
    ELSE EndBrlen([r EXCEPT !.cursor = r.cursor - 1])

\* one pass of the loop of read_brlen
ReadBrlen(r, c) ==
    IF c \in Digits \cup {"e", "-", "+", "."} THEN PutChar(r, c)
    ELSE IF c \in {",", ")", ";"}
    THEN EndBrlen([r EXCEPT !.cursor = r.cursor - 1])
    ELSE IF c = NUL THEN Fail(r, 4)
    ELSE Fail(r, 2)

\* c = ctx->newick[ctx->cursor++] at the reader's site, and its handling
ReaderStep(r, newick) ==
    LET c == newick[r.cursor + 1]
        r1 == [r EXCEPT !.cursor = r.cursor + 1]
    IN  CASE r.site = "main" -> ReadMain(r1, c, newick)
          [] r.site = "label" -> ReadLabel(r1, c)
          [] r.site = "note0" -> ReadNote0(r1, c)
          [] r.site = "note" -> ReadNote(r1, c)
          [] r.site = "brlen0" -> ReadBrlen0(r1, c)
          [] r.site = "brlen" -> ReadBrlen(r1, c)

Running(r) == r.site \notin {"ret", "crash"}

\* read_newick on a whole string (newick ends with NUL)
RECURSIVE ReadLoop(_, _)
ReadLoop(r, newick) ==
    IF Running(r) THEN ReadLoop(ReaderStep(r, newick), newick) ELSE r

read_newick(h, e, s) ==
    ReadLoop(ReadStart(ReaderInit(h, e), s # <<>> /\ s[Len(s)] = ";"),
             Append(s, NUL))

(***************************************************************************)
(* struct phy and phy_build.  The arrays are functions on 0..n-1; a slot   *)
(* of malloc'd memory that was never written holds UNINIT.                 *)
(***************************************************************************)
UNINIT == -7

NoCursor ==
    [visit |-> UNINIT, order |-> UNINIT, cursor |-> UNINIT,
     begin |-> UNINIT, end |-> UNINIT, next |-> UNINIT]

NullPhy ==
    [ntip |-> 0, nnode |-> 0, root |-> 0, nodes |-> <<>>, inodes |-> <<>>,
     vseq |-> <<>>, cursor |-> NoCursor, oob |-> FALSE]

\* a[i] = v; a store outside the array is recorded in oob
Store(a, i, v) == IF i \in DOMAIN a THEN [a EXCEPT ![i] = v] ELSE a

\* the climb without the store into lastvisit
RECURSIVE ClimbPlain(_, _, _)
ClimbPlain(h, p, q) ==
    IF h[p].anc # 0 /\ h[p].next = 0
    THEN ClimbPlain(h, h[p].anc, q)
    ELSE [h |-> h, p |-> p]

\* while (p->anc != 0 && p->next == 0) { p = p->anc; p->lastvisit = q; }
RECURSIVE ClimbVisit(_, _, _)
ClimbVisit(h, p, q) ==
    IF h[p].anc # 0 /\ h[p].next = 0
    THEN ClimbVisit([h EXCEPT ![h[p].anc].lastvisit = q], h[p].anc, q)
    ELSE [h |-> h, p |-> p]

\* the preorder walk that numbers the nodes and fills the arrays
RECURSIVE IndexWalk(_, _, _, _, _, _)
IndexWalk(h, phy, p, i, j, k) ==
    IF p = 0 THEN [h |-> h, phy |-> phy]
    ELSE LET inner == h[p].ndesc # 0
             idx == IF inner THEN phy.ntip + j ELSE k
             h1 == [h EXCEPT ![p].index = idx]
             phy1 == [phy EXCEPT
                        !.nodes = Store(@, i, p),
                        !.inodes = IF inner THEN Store(@, j, p) ELSE @,
                        !.vseq = Store(@, idx, i),
                        !.oob = @ \/ i \notin DOMAIN phy.nodes
                                  \/ idx \notin DOMAIN phy.vseq
                                  \/ (inner /\ j \notin DOMAIN phy.inodes)]
             j1 == IF inner THEN j + 1 ELSE j
             k1 == IF inner THEN k ELSE k + 1
         IN  IF h1[p].lfdesc # 0
             THEN IndexWalk(h1, phy1, h1[p].lfdesc, i + 1, j1, k1)
             ELSE IF h1[p].next # 0
             THEN IndexWalk(h1, phy1, h1[p].next, i + 1, j1, k1)
             ELSE LET c == ClimbVisit(h1, p, p)
                  IN  IndexWalk(c.h, phy1, c.h[c.p].next, i + 1, j1, k1)

phy_build(h, root, nnode, ntip) ==
    LET phy == [ntip |-> ntip, nnode |-> nnode, root |-> root,
                nodes |-> [i \in 0..(nnode - 1) |-> UNINIT],
                inodes |-> [i \in 0..(nnode - ntip - 1) |-> UNINIT],
                vseq |-> [i \in 0..(nnode - 1) |-> UNINIT],
                cursor |-> NoCursor, oob |-> FALSE]
    IN  IndexWalk(h, phy, root, 0, 0, 0)

(***************************************************************************)
(* cleanup.  The walk stops at the first undefined step and names it in    *)
(* ub: "null" (r is 0 when r->note is read), "uninit" (r was never         *)
(* assigned) or "uaf" (a field of a released node is read).  r is 0, a     *)
(* node, or UNINIT.  When lucky, the read through the unassigned r finds a *)
(* null note and the walk goes on.                                         *)
(***************************************************************************)
Live(h, n) == h[n].st = "live"

\* free(r->lab); free(r->note); free(r)
FreeNode(h, n) == [h EXCEPT ![n].st = "freed"]

\* q = p->prev; while (q != 0) { r = q; q = q->prev; free r; r = 0; }
RECURSIVE FreePrevs(_, _, _)
FreePrevs(h, q, r) ==
    IF q = 0 THEN [h |-> h, r |-> r, ub |-> "none"]
    ELSE IF ~Live(h, q) THEN [h |-> h, r |-> r, ub |-> "uaf"]
    ELSE FreePrevs(FreeNode(h, q), h[q].prev, 0)

\* what free(r->note) does at lines 163 and 170
NoteOfR(r, lucky) ==
    IF r = 0 THEN "null"
    ELSE IF r = UNINIT THEN (IF lucky THEN "none" ELSE "uninit")
    ELSE "none"

\* while (p->anc != 0 && p->next == 0) { q = p; p = p->anc; free q; }
RECURSIVE FreeClimb(_, _, _, _)
FreeClimb(h, p, r, lucky) ==
    IF ~Live(h, p) THEN [h |-> h, p |-> p, ub |-> "uaf"]
    ELSE IF h[p].anc # 0 /\ h[p].next = 0
    THEN IF NoteOfR(r, lucky) # "none"
         THEN [h |-> h, p |-> p, ub |-> NoteOfR(r, lucky)]
         ELSE FreeClimb(FreeNode(h, p), h[p].anc, r, lucky)
    ELSE [h |-> h, p |-> p, ub |-> "none"]

RECURSIVE CleanupWalk(_, _, _, _)
CleanupWalk(h, p, r, lucky) ==
    IF p = 0 THEN [h |-> h, ub |-> "none"]
    ELSE IF ~Live(h, p) THEN [h |-> h, ub |-> "uaf"]
    ELSE IF h[p].lfdesc # 0 THEN CleanupWalk(h, h[p].lfdesc, r, lucky)
    ELSE IF h[p].next # 0 THEN CleanupWalk(h, h[p].next, r, lucky)
    ELSE LET a == FreePrevs(h, h[p].prev, r)
             b == FreeClimb(a.h, p, a.r, lucky)
         IN  IF a.ub # "none" THEN [h |-> a.h, ub |-> a.ub]
             ELSE IF b.ub # "none" THEN [h |-> b.h, ub |-> b.ub]
             ELSE IF NoteOfR(a.r, lucky) # "none"
                  THEN [h |-> b.h, ub |-> NoteOfR(a.r, lucky)]
             ELSE CleanupWalk(FreeNode(b.h, b.p), b.h[b.p].next, a.r, lucky)

cleanup(h, root, lucky) == CleanupWalk(h, root, UNINIT, lucky)

(***************************************************************************)
(* The traversal cursor (struct phy_cursor).  A read outside an array, or  *)
(* of a slot never written, gives UNINIT.                                  *)
(***************************************************************************)
Load(a, i) == IF i \in DOMAIN a THEN a[i] ELSE UNINIT

\* for (p = q = first; q; q = q->next) if (q->ndesc) p = q;
RECURSIVE ScanSibs(_, _, _)
ScanSibs(h, p, q) ==
    IF q = 0 THEN p
    ELSE ScanSibs(h, IF h[q].ndesc # 0 THEN q ELSE p, h[q].next)

\* while (p->ndesc) { for (p = q = p->lastvisit->anc->lfdesc; ...) }
RECURSIVE LastInner(_, _)
LastInner(h, p) ==
    IF h[p].ndesc # 0
    THEN LET f == h[h[h[p].lastvisit].anc].lfdesc
         IN  LastInner(h, ScanSibs(h, f, f))
    ELSE p

\* InnerBound without the descent to the last internal node
InnerBoundParent(h, phy, node) ==
    Load(phy.inodes, h[h[h[node].lastvisit].anc].index - phy.ntip)

\* the boundary of an INTERNAL_NODES_ONLY traversal from an internal node
InnerBound(h, phy, node) ==
    LET f == h[h[h[node].lastvisit].anc].lfdesc
        p == LastInner(h, ScanSibs(h, f, f))
    IN  Load(phy.inodes, h[h[p].anc].index - phy.ntip)

phy_cursor_prepare_v2(h, phy, node, cursor, visit, order) ==
    LET inner == h[node].ndesc # 0
        bound == IF ~inner THEN node
                 ELSE IF visit = ALL_NODES
                 THEN Load(phy.nodes, Load(phy.vseq, h[h[node].lastvisit].index))
                 ELSE InnerBound(h, phy, node)
    IN  IF order = PREORDER
        THEN [visit |-> visit, order |-> order,
              begin |-> node, next |-> node, end |-> bound,
              cursor |-> IF ~inner THEN cursor.cursor
                         ELSE IF visit = ALL_NODES
                         THEN Load(phy.vseq, h[node].index) + 1
                         ELSE h[node].index - phy.ntip + 1]
        ELSE [visit |-> visit, order |-> order,
              end |-> node, begin |-> bound, next |-> bound,
              cursor |-> IF ~inner THEN cursor.cursor
                         ELSE IF visit = ALL_NODES
                         THEN Load(phy.vseq, h[bound].index) - 1
                         ELSE h[bound].index - phy.ntip - 1]

\* Advance that counts upwards in either order
AdvanceUp(order, c) == c + 1

\* cursor->cursor++ in PREORDER, cursor->cursor-- in POSTORDER
Advance(order, c) == IF order = PREORDER THEN c + 1 ELSE c - 1

\* phy_cursor_step that leaves the cursor as it is at the boundary node
StepKeepsNext(phy, cursor) ==
    LET node == cursor.next
    IN  IF node = 0 THEN [cursor |-> cursor, node |-> 0]
        ELSE IF node # cursor.end
        THEN [cursor |->
                [cursor EXCEPT
                   !.next = IF cursor.visit = ALL_NODES
                            THEN Load(phy.nodes, cursor.cursor)
                            ELSE Load(phy.inodes, cursor.cursor),
                   !.cursor = Advance(cursor.order, @)],
              node |-> node]
        ELSE [cursor |-> cursor, node |-> node]

\* the cursor after the step, and the node the step returns (0 for NULL)
phy_cursor_step(phy, cursor) ==
    LET node == cursor.next
    IN  IF node = 0 THEN [cursor |-> cursor, node |-> 0]
        ELSE IF node # cursor.end
        THEN [cursor |->
                [cursor EXCEPT
                   !.next = IF cursor.visit = ALL_NODES
                            THEN Load(phy.nodes, cursor.cursor)
                            ELSE Load(phy.inodes, cursor.cursor),
                   !.cursor = Advance(cursor.order, @)],
              node |-> node]
        ELSE [cursor |-> [cursor EXCEPT !.begin = 0, !.end = 0, !.next = 0],
              node |-> node]

(***************************************************************************)
(* The Newick writer.  A text and ub, which is TRUE when write_brlen       *)
(* printed more than its buffer brlen[25] holds.                           *)
(***************************************************************************)
BrlenBuf == 25

write_brlen(v) ==
    IF ~IsPos(v) THEN [s |-> <<>>, ub |-> FALSE]
    ELSE IF IsInf(v) THEN [s |-> <<":", "i", "n", "f">>, ub |-> FALSE]
    ELSE LET t == <<":">> \o FormatF(v)
         IN  [s |-> t, ub |-> Len(t) + 1 > BrlenBuf]

write_label(n) == IF n.lab # NullStr THEN n.lab ELSE <<>>

write_note(n) == IF n.note # NullStr THEN n.note ELSE <<>>

RECURSIVE write_newick(_, _)
RECURSIVE WriteDescs(_, _, _)
\* for (d = node->lfdesc; d != 0; d = d->next)
WriteDescs(h, node, d) ==
    IF d = 0 THEN [s |-> <<>>, ub |-> FALSE]
    ELSE LET w == write_newick(h, d)
             rest == WriteDescs(h, node, h[d].next)
         IN  [s |-> (IF d = h[node].lfdesc THEN <<"(">> ELSE <<>>) \o w.s
                      \o (IF h[d].next # 0 THEN <<",">> ELSE <<>>) \o rest.s,
              ub |-> w.ub \/ rest.ub]

write_newick(h, node) ==
    LET ds == IF h[node].ndesc # 0
              THEN LET w == WriteDescs(h, node, h[node].lfdesc)
                   IN  [s |-> w.s \o <<")">>, ub |-> w.ub]
              ELSE [s |-> <<>>, ub |-> FALSE]
        b == write_brlen(h[node].brlen)
    IN  [s |-> ds.s \o write_label(h[node]) \o write_note(h[node]) \o b.s,
         ub |-> ds.ub \/ b.ub]

phy_write_newickstr(h, phy) ==
    LET w == write_newick(h, phy.root)
    IN  [s |-> w.s \o <<";">>, ub |-> w.ub]

(***************************************************************************)
(* phy_read_newickstr once read_newick has ended in the reader state r:    *)
(* build the tree, or release the nodes.  crash tells that the call did    *)
(* not return (the reader or cleanup made an undefined step).              *)
(***************************************************************************)
ReadFinish(r, lucky) ==
    IF r.site = "crash"
    THEN [heap |-> r.heap, errno |-> r.errno, phy |-> NullPhy,
          crash |-> TRUE, ub |-> "null"]
    ELSE IF r.ret # 0
    THEN LET b == phy_build(r.heap, r.ret, r.nnode, r.ntip)
         IN  [heap |-> b.h, errno |-> r.errno, phy |-> b.phy,
              crash |-> FALSE, ub |-> "none"]
    ELSE LET c == cleanup(r.heap, r.root, lucky)
         IN  [heap |-> c.h, errno |-> r.errno, phy |-> NullPhy,
              crash |-> c.ub # "none", ub |-> c.ub]

phy_read_newickstr(h, e, s, lucky) == ReadFinish(read_newick(h, e, s), lucky)

\* phy_duplicate; wlucky: an overrun of brlen[25] does no harm
phy_duplicate(h, e, phy, lucky, wlucky) ==
    LET w == phy_write_newickstr(h, phy)
    IN  IF w.ub /\ ~wlucky
        THEN [heap |-> h, errno |-> e, phy |-> NullPhy, crash |-> TRUE,
              ub |-> "overrun"]
        ELSE phy_read_newickstr(h, e, w.s, lucky)

(***************************************************************************)
(* Operations on a built tree.                                             *)
(***************************************************************************)
\* while ((a = a->anc) != 0) gotcha[a->index] = 1;
RECURSIVE MarkAbove(_, _)
MarkAbove(h, a) ==
    IF h[a].anc = 0 THEN {}
    ELSE {h[h[a].anc].index} \cup MarkAbove(h, h[a].anc)

\* while (b && !gotcha[b->index]) b = b->anc;
RECURSIVE ClimbMarked(_, _, _)
ClimbMarked(h, b, gotcha) ==
    IF b = 0 THEN 0
    ELSE IF h[b].index \in gotcha THEN b
    ELSE ClimbMarked(h, h[b].anc, gotcha)

phy_node_mrca(h, phy, a, b) ==
    IF a = b THEN a ELSE ClimbMarked(h, b, MarkAbove(h, a))

\* node = node->lfdesc; while (node->lfdesc) node = node->lfdesc;
RECURSIVE FirstTip(_, _)
FirstTip(h, node) ==
    IF h[node].lfdesc # 0 THEN FirstTip(h, h[node].lfdesc) ELSE node

\* phy_node_spanning_pair that takes the label of the first child
SpanFirstChild(h, node) ==
    IF h[node].ndesc = 0
    THEN [a |-> h[node].lab, b |-> h[node].lab]
    ELSE [a |-> h[h[node].lfdesc].lab, b |-> h[h[node].lastvisit].lab]

\* the labels stored in *a and *b
phy_node_spanning_pair(h, node) ==
    IF h[node].ndesc = 0
    THEN [a |-> h[node].lab, b |-> h[node].lab]
    ELSE [a |-> h[FirstTip(h, h[node].lfdesc)].lab,
          b |-> h[h[node].lastvisit].lab]

\* Add that drops the second length
AddNothing(u, v) == u

\* u + v on branch lengths (exact on the decimals)
Add(u, v) ==
    IF IsInf(u) THEN u
    ELSE IF IsInf(v) THEN v
    ELSE LET e == IF u.x < v.x THEN u.x ELSE v.x
         IN  Norm(u.m * Pow10(u.x - e) + v.m * Pow10(v.x - e), e)

\* while ((p = p->anc) != 0) { if (bitmask[..]) break; bitmask[..] = 1; }
RECURSIVE MarkUp(_, _, _)
MarkUp(h, p, bitmask) ==
    LET a == h[p].anc
    IN  IF a = 0 \/ h[a].index \in bitmask THEN bitmask
        ELSE MarkUp(h, a, bitmask \cup {h[a].index})

\* for (i = 0; i < ntip; ++i) { p = tips[i]; bitmask[p->index] = 1; ... }
RECURSIVE MarkTips(_, _, _, _)
MarkTips(h, tips, i, bitmask) ==
    IF i > Len(tips) THEN bitmask
    ELSE MarkTips(h, tips, i + 1,
                  MarkUp(h, tips[i], bitmask \cup {h[tips[i]].index}))

\* while (p->anc != 0 && p->next == 0) { if (bitmask[..]) head = head->anc;
\* p = p->anc; }
RECURSIVE ClimbHead(_, _, _, _)
ClimbHead(h, bitmask, p, head) ==
    IF h[p].anc # 0 /\ h[p].next = 0
    THEN ClimbHead(h, bitmask, h[p].anc,
                   IF h[p].index \in bitmask THEN h[head].anc ELSE head)
    ELSE [p |-> p, head |-> head]

\* the walk over the source tree that copies the marked nodes
RECURSIVE CopyWalk(_, _, _, _, _, _)
CopyWalk(h, bitmask, p, root, head, nnode) ==
    IF p = 0 THEN [h |-> h, root |-> root, nnode |-> nnode]
    ELSE LET marked == h[p].index \in bitmask
             q == Len(h) + 1
             s == IF marked /\ root = 0
                  THEN [h |-> node_new(h), root |-> q, head |-> q,
                        nnode |-> nnode + 1]
                  ELSE IF marked
                  THEN [h |-> phy_node_add_child(
                                 [node_new(h) EXCEPT
                                    ![q].brlen = h[p].brlen,
                                    ![q].lab = h[p].lab],
                                 head, q),
                        root |-> root, head |-> q, nnode |-> nnode + 1]
                  ELSE [h |-> h, root |-> root, head |-> head,
                        nnode |-> nnode]
         IN  IF h[p].lfdesc # 0
             THEN CopyWalk(s.h, bitmask, h[p].lfdesc, s.root, s.head,
                           s.nnode)
             ELSE IF h[p].next # 0
             THEN CopyWalk(s.h, bitmask, h[p].next, s.root,
                           IF marked THEN s.h[s.head].anc ELSE s.head,
                           s.nnode)
             ELSE LET c == ClimbHead(s.h, bitmask, p, s.head)
                  IN  CopyWalk(s.h, bitmask, h[c.p].next, s.root,
                               IF h[c.p].index \in bitmask
                               THEN s.h[c.head].anc ELSE c.head,
                               s.nnode)

\* Splice with q->brlen = p->brlen in place of q->brlen += p->brlen
SpliceAssign(h, p, root) ==
    LET q == h[p].lfdesc
        h1 == [h EXCEPT ![q].brlen = h[p].brlen,
                        ![q].next = h[p].next,
                        ![q].prev = h[p].prev,
                        ![q].anc = h[p].anc]
        h2 == IF h[p].prev # 0 THEN [h1 EXCEPT ![h[p].prev].next = q]
              ELSE h1
        h3 == IF h[p].next # 0 THEN [h2 EXCEPT ![h[p].next].prev = q]
              ELSE h2
        h4 == IF h[p].anc # 0 /\ h3[h[p].anc].lfdesc = p
              THEN [h3 EXCEPT ![h[p].anc].lfdesc = q] ELSE h3
        h5 == IF p = root THEN [h4 EXCEPT ![q].brlen = Zero] ELSE h4
    IN  [h |-> FreeNode(h5, p), p |-> q,
         root |-> IF p = root THEN q ELSE root]

\* the body of while (p->ndesc == 1): the only child q of p takes the place
\* of p and the length of p is added to that of q
Splice(h, p, root) ==
    LET q == h[p].lfdesc
        h1 == [h EXCEPT ![q].brlen = Add(@, h[p].brlen),
                        ![q].next = h[p].next,
                        ![q].prev = h[p].prev,
                        ![q].anc = h[p].anc]
        h2 == IF h[p].prev # 0 THEN [h1 EXCEPT ![h[p].prev].next = q]
              ELSE h1
        h3 == IF h[p].next # 0 THEN [h2 EXCEPT ![h[p].next].prev = q]
              ELSE h2
        h4 == IF h[p].anc # 0 /\ h3[h[p].anc].lfdesc = p
              THEN [h3 EXCEPT ![h[p].anc].lfdesc = q] ELSE h3
        h5 == IF p = root THEN [h4 EXCEPT ![q].brlen = Zero] ELSE h4
    IN  [h |-> FreeNode(h5, p), p |-> q,
         root |-> IF p = root THEN q ELSE root]

\* while (p->anc != 0 && p->next == 0) p = p->anc;
RECURSIVE ClimbLast(_, _)
ClimbLast(h, p) ==
    IF h[p].anc # 0 /\ h[p].next = 0 THEN ClimbLast(h, h[p].anc) ELSE p

\* the walk over the copy that removes the nodes with one descendant
RECURSIVE CollapseWalk(_, _, _, _)
CollapseWalk(h, p, root, nnode) ==
    IF p = 0 THEN [h |-> h, root |-> root, nnode |-> nnode]
    ELSE IF h[p].ndesc = 1
    THEN LET s == Splice(h, p, root)
         IN  CollapseWalk(s.h, s.p, s.root, nnode - 1)
    ELSE IF h[p].lfdesc # 0 THEN CollapseWalk(h, h[p].lfdesc, root, nnode)
    ELSE IF h[p].next # 0 THEN CollapseWalk(h, h[p].next, root, nnode)
    ELSE CollapseWalk(h, h[ClimbLast(h, p)].next, root, nnode)

\* phy_extract_subtree without the walk that removes the nodes with one
\* descendant
ExtractUncollapsed(h, ntip, tips, phy) ==
    LET bitmask == MarkTips(h, tips, 1, {})
        c == CopyWalk(h, bitmask, phy.root, 0, 0, 0)
    IN  IF c.root = 0
        THEN [heap |-> c.h, phy |-> NullPhy, crash |-> TRUE, ub |-> "null"]
        ELSE LET b == phy_build([c.h EXCEPT ![c.root].brlen = Zero],
                                c.root, c.nnode, ntip)
             IN  [heap |-> b.h, phy |-> b.phy, crash |-> FALSE,
                  ub |-> "none"]

\* phy_extract_subtree; tips is the array of ntip tips.  With no tip there
\* is no root and root->brlen = 0 stores through the null pointer.
phy_extract_subtree(h, ntip, tips, phy) ==
    LET bitmask == MarkTips(h, tips, 1, {})
        c == CopyWalk(h, bitmask, phy.root, 0, 0, 0)
    IN  IF c.root = 0
        THEN [heap |-> c.h, phy |-> NullPhy, crash |-> TRUE, ub |-> "null"]
        ELSE LET d == CollapseWalk([c.h EXCEPT ![c.root].brlen = Zero],
                                   c.root, c.root, c.nnode)
                 b == phy_build(d.h, d.root, d.nnode, ntip)
             IN  [heap |-> b.h, phy |-> b.phy, crash |-> FALSE,
                  ub |-> "none"]

\* v / 2 on branch lengths
Half(v) == IF IsInf(v) THEN v ELSE Norm(v.m * 5, v.x - 1)

phy_isrooted(h, phy) == IF h[phy.root].ndesc > 2 THEN 0 ELSE 1

\* phy_node_prune: the heap after q was taken from the children of p;
\* nothing happens when p or q is null or q is no child of p
phy_node_prune(h, p, q) ==
    IF q = 0 \/ p = 0 THEN h
    ELSE IF h[q].anc # p THEN h
    ELSE LET prev == h[q].prev
             next == h[q].next
             h1 == [h EXCEPT ![q].prev = 0, ![q].next = 0, ![q].anc = 0]
             h2 == IF prev # 0 THEN [h1 EXCEPT ![prev].next = next] ELSE h1
             h3 == IF next # 0 THEN [h2 EXCEPT ![next].prev = prev] ELSE h2
             h4 == IF q = h[p].lfdesc THEN [h3 EXCEPT ![p].lfdesc = next]
                   ELSE h3
         IN  [h4 EXCEPT ![p].ndesc = @ - 1]

\* phy_cursor_prepare: the tree with its embedded cursor prepared
phy_cursor_prepare(h, phy, node, visit, order) ==
    [phy EXCEPT !.cursor = phy_cursor_prepare_v2(h, phy, node, phy.cursor,
                                                 visit, order)]

\* while ((node = phy_cursor_step(cursor)) != 0) { if (node->lab) if
\* (strcmp(label, node->lab) == 0) break; }
RECURSIVE FindLoop(_, _, _, _)
FindLoop(h, phy, cursor, label) ==
    LET r == phy_cursor_step(phy, cursor)
    IN  IF r.node = 0 THEN 0
        ELSE IF h[r.node].lab # NullStr /\ h[r.node].lab = label
        THEN r.node
        ELSE FindLoop(h, phy, r.cursor, label)

\* phy_node_find: the first node in postorder that carries the label
phy_node_find(h, phy, label) ==
    FindLoop(h, phy,
             phy_cursor_prepare(h, phy, phy.root, ALL_NODES,
                                POSTORDER).cursor,
             label)

\* for (i = 0; i < phy->nnode; ++i) node_free(phy->nodes[i]);
RECURSIVE FreeNodes(_, _, _)
FreeNodes(h, phy, i) ==
    IF i >= phy.nnode THEN h
    ELSE FreeNodes(IF Load(phy.nodes, i) \in 1..Len(h)
                   THEN FreeNode(h, phy.nodes[i]) ELSE h,
                   phy, i + 1)

\* phy_free: the heap after every node in phy->nodes was released
phy_free(h, phy) == FreeNodes(h, phy, 0)

\* while (p->anc) { d = p->anc; p = phy_node_prune(d, p); if (!q) q = p;
\* else { p->prev = q; q = p; } p = d; }
RECURSIVE PathList(_, _, _)
PathList(h, p, q) ==
    IF h[p].anc # 0
    THEN LET d == h[p].anc
             h1 == phy_node_prune(h, d, p)
         IN  PathList(IF q = 0 THEN h1 ELSE [h1 EXCEPT ![p].prev = q],
                      d, p)
    ELSE [h |-> h, p |-> p, q |-> q]

\* for (d = d->lfdesc; d == p; d = d->next) {}
RECURSIVE OtherChild(_, _, _)
OtherChild(h, d, p) == IF d # 0 /\ d = p THEN OtherChild(h, h[d].next, p) ELSE d

\* while (q->prev) { d = q; p = q->prev; phy_node_add_child(p, d);
\* d->brlen = p->brlen; q = p; }
RECURSIVE ReverseEdges(_, _)
ReverseEdges(h, q) ==
    IF h[q].prev # 0
    THEN LET p == h[q].prev
             h1 == phy_node_add_child(h, p, q)
         IN  ReverseEdges([h1 EXCEPT ![q].brlen = h1[p].brlen], p)
    ELSE [h |-> h, q |-> q]

\* the one member of the set s
TheOne(s) == CHOOSE r \in s : TRUE

\* phy_reroot did not return: it took the undefined step u
RerootDead(h, e, in, u) ==
    [heap |-> h, errno |-> e, in |-> in, out |-> NullPhy, crash |-> TRUE,
     ub |-> u]

\* if (overwrite) { phy_free(*in); *in = *out; } phy_free(phy);
RerootEnd(in, overwrite, dup, o) ==
    [heap |-> phy_free(IF overwrite THEN phy_free(o.h, in) ELSE o.h,
                       dup.phy),
     errno |-> dup.errno,
     in |-> IF overwrite THEN o.phy ELSE in,
     out |-> o.phy, crash |-> FALSE, ub |-> "none"]

\* phy_reroot from the end of the first while loop, which left l: the jump
\* around the current root, the rest of the edges, and the build
RerootJump(in, overwrite, isrooted, dup, root_on, l) ==
    LET root == Len(dup.heap) + 1
        b == Half(dup.heap[root_on].brlen)
        h3 == [l.h EXCEPT ![l.p].prev = l.q]
        q == l.p
        d == OtherChild(h3, h3[q].lfdesc,
                        IF h3[q].prev # 0 THEN h3[q].prev ELSE root_on)
        s == IF isrooted = 1 /\ h3[q].prev # 0
             THEN LET pp == h3[q].prev
                      h4 == phy_node_add_child(h3, pp, d)
                  IN  [h |-> [h4 EXCEPT ![d].brlen = Add(@, h4[pp].brlen)],
                       q |-> pp, b |-> b]
             ELSE IF isrooted = 1
             THEN [h |-> [h3 EXCEPT ![d].prev = 0],
                   q |-> d, b |-> Add(b, h3[d].brlen)]
             ELSE [h |-> h3, q |-> q, b |-> b]
        r == ReverseEdges(s.h, s.q)
    IN  IF isrooted = 1 /\ d = 0
        THEN RerootDead(h3, dup.errno, in, "null")
        ELSE TheOne({RerootEnd(in, overwrite, dup, o) :
                       o \in {phy_build(
                                [phy_node_add_child(r.h, root, r.q)
                                   EXCEPT ![r.q].brlen = s.b],
                                root,
                                dup.phy.nnode
                                  + (IF isrooted = 1 THEN 0 ELSE 1),
                                dup.phy.ntip)}})

\* phy_reroot from b = root_on->brlen / 2 to the end of the first while
\* loop; root_on has no ancestor when it is the root, and p->anc reads
\* through the null pointer
RerootAt(in, overwrite, isrooted, dup, root_on) ==
    IF root_on = 0 \/ dup.heap[root_on].anc = 0
    THEN RerootDead(dup.heap, dup.errno, in, "null")
    ELSE LET p == dup.heap[root_on].anc
             h1 == node_new(phy_node_prune(dup.heap, p, root_on))
             h2 == [phy_node_add_child(h1, Len(dup.heap) + 1, root_on)
                      EXCEPT ![root_on].brlen =
                               Half(dup.heap[root_on].brlen)]
         IN  TheOne({RerootJump(in, overwrite, isrooted, dup, root_on, l) :
                       l \in {PathList(h2, p, 0)}})

\* root_on = phy_node_mrca(phy, phy_node_find(phy, lf_tip),
\*                         phy_node_find(phy, rt_tip));
RootOn(dup, tip) ==
    LET fa == phy_node_find(dup.heap, dup.phy, tip.a)
        fb == phy_node_find(dup.heap, dup.phy, tip.b)
    IN  IF fa = 0 THEN 0 ELSE phy_node_mrca(dup.heap, dup.phy, fa, fb)

\* phy_reroot once the tree is duplicated
RerootCopy(h, node, in, overwrite, dup) ==
    IF dup.crash THEN RerootDead(dup.heap, dup.errno, in, dup.ub)
    ELSE IF dup.phy = NullPhy
    THEN RerootDead(dup.heap, dup.errno, in, "null")
    ELSE TheOne({RerootAt(in, overwrite, phy_isrooted(h, in), dup, root_on) :
                   root_on \in {RootOn(dup,
                                       phy_node_spanning_pair(h, node))}})

\* phy_reroot(node, in, out); overwrite tells that in and out are the same
\* pointer.  The result holds the heap, the trees *in and *out, and crash
\* with ub when the call takes an undefined step.
phy_reroot(h, e, node, in, overwrite, lucky, wlucky) ==
    TheOne({RerootCopy(h, node, in, overwrite, dup) :
              dup \in {phy_duplicate(h, e, in, lucky, wlucky)}})

\* phy_unroot once the tree is duplicated: the first child p of the root
\* and then q, the sibling after the child that became first, are pruned;
\* q is hung under p and the tree is built from p with one node less.
\* A store of phy_build outside its arrays (oob) is an overrun that ends
\* the call unless olucky.
UnrootCopy(in, overwrite, dup, olucky) ==
    IF dup.crash THEN RerootDead(dup.heap, dup.errno, in, dup.ub)
    ELSE IF dup.phy = NullPhy
    THEN RerootDead(dup.heap, dup.errno, in, "null")
    ELSE LET root == dup.phy.root
             p == dup.heap[root].lfdesc
             h1 == phy_node_prune(dup.heap, root, p)
             q == IF h1[root].lfdesc = 0 THEN 0
                  ELSE h1[h1[root].lfdesc].next
             h2 == phy_node_prune(h1, root, q)
         IN  IF p = 0 \/ q = 0
             THEN RerootDead(h1, dup.errno, in, "null")
             ELSE TheOne({IF o.phy.oob /\ ~olucky
                          THEN RerootDead(o.h, dup.errno, in, "overrun")
                          ELSE RerootEnd(in, overwrite, dup, o) :
                     o \in {phy_build(
                              phy_node_add_child(
                                [h2 EXCEPT
                                   ![q].brlen = Add(@, h2[p].brlen),
                                   ![p].brlen = Zero],
                                p, q),
                              p, dup.phy.nnode - 1, dup.phy.ntip)}})

\* phy_unroot(in, out); overwrite tells that *in and *out are the same
\* tree.  if (isrooted) { *out = 0; return; }
phy_unroot(h, e, in, overwrite, lucky, wlucky, olucky) ==
    IF phy_isrooted(h, in) = 1
    THEN [heap |-> h, errno |-> e, in |-> in, out |-> NullPhy,
          crash |-> FALSE, ub |-> "none"]
    ELSE TheOne({UnrootCopy(in, overwrite, dup, olucky) :
                   dup \in {phy_duplicate(h, e, in, lucky, wlucky)}})

\* phy_node_swap, statement by statement; next and prev are the links of
\* a read before the first store
\* a->next = b->next; a->prev = b->prev;
SwapTakeLinks(h0, a, b) ==
    TheOne({[h EXCEPT ![a].next = h[b].next, ![a].prev = h[b].prev] :
              h \in {h0}})

\* if (b->next) b->next->prev = a;
SwapNextOfB(h0, a, b) ==
    TheOne({IF h[b].next # 0 THEN [h EXCEPT ![h[b].next].prev = a] ELSE h :
              h \in {h0}})

\* if (b->prev) b->prev->next = a;
SwapPrevOfB(h0, a, b) ==
    TheOne({IF h[b].prev # 0 THEN [h EXCEPT ![h[b].prev].next = a] ELSE h :
              h \in {h0}})

\* b->next = next; b->prev = prev;
SwapGiveLinks(h0, b, next, prev) ==
    TheOne({[h EXCEPT ![b].next = next, ![b].prev = prev] : h \in {h0}})

\* if (next) next->prev = b;
SwapNextOfA(h0, b, next) ==
    TheOne({IF next # 0 THEN [h EXCEPT ![next].prev = b] ELSE h :
              h \in {h0}})

\* if (prev) prev->next = b;
SwapPrevOfA(h0, b, prev) ==
    TheOne({IF prev # 0 THEN [h EXCEPT ![prev].next = b] ELSE h :
              h \in {h0}})

\* if (a->anc->lfdesc == a) a->anc->lfdesc = b;
SwapFirst(h0, a, b) ==
    TheOne({IF h[h[a].anc].lfdesc = a
            THEN [h EXCEPT ![h[a].anc].lfdesc = b] ELSE h :
              h \in {h0}})

\* phy_node_swap: the heap after the call
phy_node_swap(h, a, b) ==
    IF h[a].anc = 0 \/ h[b].anc = 0 \/ h[a].anc # h[b].anc THEN h
    ELSE SwapFirst(
           SwapPrevOfA(
             SwapNextOfA(
               SwapGiveLinks(
                 SwapPrevOfB(SwapNextOfB(SwapTakeLinks(h, a, b), a, b),
                             a, b),
                 b, h[a].next, h[a].prev),
               b, h[a].next),
             b, h[a].prev),
           a, b)

\* phy_node_rotate, first while loop: the children of node are pruned one
\* by one from q on and stacked on d through their prev links
RECURSIVE RotatePush(_, _, _, _)
RotatePush(h, node, q, d) ==
    IF q = 0 THEN [h |-> h, d |-> d]
    ELSE TheOne({RotatePush(IF d # 0 THEN [h1 EXCEPT ![q].prev = d]
                            ELSE h1,
                            node, h[q].next, q) :
                   h1 \in {phy_node_prune(h, node, q)}})

\* second while loop: the stack is emptied onto node
RECURSIVE RotatePop(_, _, _)
RotatePop(h, node, d) ==
    IF d = 0 THEN h
    ELSE TheOne({RotatePop(h1, node, h[d].prev) :
                   h1 \in {phy_node_add_child(h, node, d)}})

\* the for loop over nodes[i..n-1]; q->next reads through the null
\* pointer when the node has no child
RECURSIVE RotateEach(_, _, _)
RotateEach(h, nodes, i) ==
    IF i > Len(nodes) THEN [h |-> h, crash |-> FALSE]
    ELSE IF h[nodes[i]].lfdesc = 0 THEN [h |-> h, crash |-> TRUE]
    ELSE TheOne({RotateEach(RotatePop(s.h, nodes[i], s.d), nodes, i + 1) :
                   s \in {RotatePush(h, nodes[i], h[nodes[i]].lfdesc, 0)}})

\* phy_node_rotate without the walk that renumbers the nodes
RotateNoIndex(h, nodes, phy) ==
    TheOne({[h |-> r.h, phy |-> phy, crash |-> r.crash] :
              r \in {RotateEach(h, nodes, 1)}})

\* phy_node_rotate(n, nodes, phy): the heap and the tree after the call
phy_node_rotate(h, nodes, phy) ==
    TheOne({IF r.crash THEN [h |-> r.h, phy |-> phy, crash |-> TRUE]
            ELSE TheOne({[h |-> w.h, phy |-> w.phy, crash |-> FALSE] :
                           w \in {IndexWalk(r.h, phy, phy.root, 0, 0, 0)}}) :
              r \in {RotateEach(h, nodes, 1)}})

PHY_ERR1 == "cannot allocate memory"
PHY_ERR2 ==
    "encountered unexpected character in Newick string node label/branch length"
PHY_ERR3 == "detected unifurcation in Newick string"
PHY_ERR4 == "malformed Newick string"

\* phy_errmsg without the stores that reset phy_errno
ErrmsgKeep(e) ==
    [msg |-> IF e = 1 THEN PHY_ERR1 ELSE IF e = 2 THEN PHY_ERR2
             ELSE IF e = 3 THEN PHY_ERR3 ELSE IF e = 4 THEN PHY_ERR4
             ELSE "no errors detected",
     errno |-> e]

\* phy_errmsg: the message returned and phy_errno after the call
phy_errmsg(e) ==
    IF e = 1 THEN [msg |-> PHY_ERR1, errno |-> 0]
    ELSE IF e = 2 THEN [msg |-> PHY_ERR2, errno |-> 0]
    ELSE IF e = 3 THEN [msg |-> PHY_ERR3, errno |-> 0]
    ELSE IF e = 4 THEN [msg |-> PHY_ERR4, errno |-> 0]
    ELSE [msg |-> "no errors detected", errno |-> e]

\* phy_extract_clade that clears the branch length of the node it was
\* handed instead of that of the new root
ExtractCladeInPlace(h, e, node, lucky, wlucky) ==
    TheOne({IF w.ub /\ ~wlucky
            THEN [heap |-> h, errno |-> e, phy |-> NullPhy, crash |-> TRUE,
                  ub |-> "overrun"]
            ELSE TheOne({IF r.crash \/ r.phy = NullPhy THEN r
                         ELSE [r EXCEPT !.heap[node].brlen = Zero] :
                    r \in {phy_read_newickstr(h, e, w.s \o <<";">>,
                                              lucky)}}) :
              w \in {write_newick(h, node)}})

\* phy_extract_clade: the subtree of node is written, with a ";", and read
\* back; the root of the tree read has its branch length cleared
phy_extract_clade(h, e, node, lucky, wlucky) ==
    TheOne({IF w.ub /\ ~wlucky
            THEN [heap |-> h, errno |-> e, phy |-> NullPhy, crash |-> TRUE,
                  ub |-> "overrun"]
            ELSE TheOne({IF r.crash \/ r.phy = NullPhy THEN r
                         ELSE [r EXCEPT !.heap[r.phy.root].brlen = Zero] :
                    r \in {phy_read_newickstr(h, e, w.s \o <<";">>,
                                              lucky)}}) :
              w \in {write_newick(h, node)}})

(***************************************************************************)
(* State.                                                                  *)
(***************************************************************************)
VARIABLES
    newick,     \* the input string as far as the reader has looked at it
    ctx,        \* the reader state (struct newick_reader and its site)
    heap,       \* the nodes
    phy_errno,  \* the error slot
    pc,         \* where the client program is
    phy,        \* the tree the client holds, NullPhy for NULL
    cpy,        \* the tree returned by phy_duplicate
    ub,         \* the undefined step that ended the run, "none" if none
    kind,       \* the kind of input string: "notes" or "lengths"
    cur,        \* the client's own cursor (phy_cursor_alloc)
    trav,       \* what the client asked of the cursor, and whether it ended
    out,        \* the nodes phy_cursor_step has returned since the prepare
    other,      \* a second client: its cursor, what it asked, what it got
    res         \* the last operation on the tree and what it returned

vars == <<newick, ctx, heap, phy_errno, pc, phy, cpy, ub, kind,
          cur, trav, out, other, res>>

reader_vars == <<newick, ctx, phy_errno, cpy, ub, kind>>
cursor_vars == <<cur, trav, out, other, res>>

NoCtx == [ReaderInit(<<>>, 0) EXCEPT !.site = "none"]
NoTrav == [node |-> 0, visit |-> 0, order |-> 0, done |-> FALSE]
NoOther == [cur |-> NoCursor, trav |-> NoTrav, out |-> <<>>]
NoRes == [op |-> "none"]

Init ==
    /\ newick = <<>>
    /\ ctx = NoCtx
    /\ heap = <<>>
    /\ phy_errno = 0
    /\ pc = "start"
    /\ phy = NullPhy
    /\ cpy = NullPhy
    /\ ub = "none"
    /\ kind \in {"notes", "lengths"}
    /\ cur = NoCursor
    /\ trav = NoTrav
    /\ out = <<>>
    /\ other = NoOther
    /\ res = NoRes

\* the reader state, with the heap and error slot it works on
Reader == [ctx EXCEPT !.heap = heap, !.errno = phy_errno]

Alphabet == IF kind = "notes" THEN NoteAlphabet ELSE LengthAlphabet

\* the characters an input string may go on with after the prefix s
NextChars(s) ==
    IF s # <<>> /\ s[Len(s)] = NUL THEN {}
    ELSE (IF Len(s) < MaxLen - 1 THEN Alphabet
          ELSE IF Len(s) = MaxLen - 1 THEN {";"} ELSE {})
         \cup (IF s # <<>> /\ s[Len(s)] = ";" THEN {NUL} ELSE {})

\* the input keeps its labels, notes and branch lengths within the bounds
InBounds(r, c) ==
    /\ r.nnode <= MaxRead
    /\ r.n <= (CASE r.site = "label" -> MaxLabel
                [] r.site = "note" -> MaxNote
                [] r.site = "brlen" -> MaxBrlen
                [] OTHER -> 0)
    /\ r.n > ctx.n => c \in (CASE r.site = "label" -> LabelChars
                               [] r.site = "note" -> NoteChars
                               [] r.site = "brlen" -> BrlenChars)

Took(r) ==
    /\ ctx' = [r EXCEPT !.heap = <<>>, !.errno = 0]
    /\ heap' = r.heap
    /\ phy_errno' = r.errno
    /\ pc' = IF r.site = "crash" THEN "crashed"
             ELSE IF r.site = "ret" THEN "read" ELSE "reading"
    /\ ub' = IF r.site = "crash" THEN "null" ELSE "none"

\* phy_read_newickstr is called: read_newick up to its loop
ReadBegin ==
    /\ pc = "start"
    /\ \E terminated \in BOOLEAN :
         \E r \in {ReadStart(ReaderInit(heap, phy_errno), terminated)} :
           Took(r)
    /\ UNCHANGED <<newick, phy, cpy, kind, cursor_vars>>

\* the reader reads one character
ReadChar ==
    /\ pc = "reading"
    /\ IF ctx.cursor < Len(newick)
       THEN /\ \E r \in {ReaderStep(Reader, newick)} : Took(r)
            /\ UNCHANGED newick
       ELSE \E c \in NextChars(newick) :
              \E r \in {ReaderStep(Reader, Append(newick, c))} :
                /\ InBounds(r, c)
                /\ newick' = Append(newick, c)
                /\ Took(r)
    /\ UNCHANGED <<phy, cpy, kind, cursor_vars>>

\* read_newick has returned: phy_read_newickstr builds or cleans up
ReadEnd ==
    /\ pc = "read"
    /\ \E lucky \in BOOLEAN :
         \E f \in {ReadFinish(Reader, lucky)} :
             /\ heap' = f.heap
             /\ phy' = f.phy
             /\ ub' = f.ub
             /\ pc' = IF f.crash THEN "crashed"
                      ELSE IF f.phy = NullPhy THEN "failed" ELSE "built"
    /\ UNCHANGED <<newick, ctx, phy_errno, cpy, kind, cursor_vars>>

\* phy_duplicate on the tree that was read
Duplicate ==
    /\ pc = "built"
    /\ \E lucky \in BOOLEAN, wlucky \in BOOLEAN :
         \E f \in {phy_duplicate(heap, phy_errno, phy, lucky, wlucky)} :
             /\ heap' = f.heap
             /\ phy_errno' = f.errno
             /\ cpy' = f.phy
             /\ ub' = f.ub
             /\ pc' = IF f.crash THEN "crashed"
                      ELSE IF f.phy = NullPhy THEN "dupfailed" ELSE "dup"
    /\ UNCHANGED <<newick, ctx, phy, kind, cursor_vars>>

Next == ReadBegin \/ ReadChar \/ ReadEnd \/ Duplicate

Spec == Init /\ [][Next]_vars

(***************************************************************************)
(* A client that links a node graph by hand, builds the tree and walks it  *)
(* with a cursor of its own.  Each node is linked, as the last child of a  *)
(* node of the graph, before the next one is allocated; node 1 is the      *)
(* root.                                                                   *)
(***************************************************************************)
InitTree ==
    /\ newick = <<>>
    /\ ctx = NoCtx
    /\ heap = <<>>
    /\ phy_errno = 0
    /\ pc = "start"
    /\ phy = NullPhy
    /\ cpy = NullPhy
    /\ ub = "none"
    /\ kind = "graph"
    /\ cur = NoCursor
    /\ trav = NoTrav
    /\ out = <<>>
    /\ other = NoOther
    /\ res = NoRes

Nodes == 1..Len(heap)

Linked == \A n \in Nodes : n = 1 \/ heap[n].anc # 0

\* phy_node_alloc
NodeAlloc ==
    /\ pc \in {"start", "graph"}
    /\ Len(heap) < MaxNodes
    /\ Linked
    /\ heap' = node_new(heap)
    /\ pc' = "graph"
    /\ UNCHANGED <<phy, reader_vars, cursor_vars>>

\* phy_node_add_child of the node allocated last
AddChild ==
    /\ pc = "graph"
    /\ ~Linked
    /\ \E parent \in 1..(Len(heap) - 1) :
         heap' = phy_node_add_child(heap, parent, Len(heap))
    /\ UNCHANGED <<pc, phy, reader_vars, cursor_vars>>

\* phy_build on the graph, called with the counts of the graph
Build ==
    /\ pc = "graph"
    /\ Linked
    /\ \E b \in {phy_build(heap, 1, Len(heap),
                           Cardinality({n \in Nodes : heap[n].ndesc = 0}))} :
         /\ heap' = b.h
         /\ phy' = b.phy
    /\ pc' = "built"
    /\ UNCHANGED <<reader_vars, cursor_vars>>

\* phy_cursor_prepare_v2 with the client's cursor
PrepareV2 ==
    /\ pc \in {"built", "walk"}
    /\ \E node \in Nodes, visit \in {ALL_NODES, INTERNAL_NODES_ONLY},
          order \in {PREORDER, POSTORDER} :
         /\ cur' = phy_cursor_prepare_v2(heap, phy, node, cur, visit, order)
         /\ trav' = [node |-> node, visit |-> visit, order |-> order,
                     done |-> FALSE]
    /\ out' = <<>>
    /\ pc' = "walk"
    /\ UNCHANGED <<heap, phy, reader_vars, other, res>>

\* phy_cursor_step on the client's cursor
Step ==
    /\ pc = "walk"
    /\ Len(out) <= Len(heap)
    /\ \E r \in {phy_cursor_step(phy, cur)} :
         /\ cur' = r.cursor
         /\ out' = IF r.node # 0 THEN Append(out, r.node) ELSE out
         /\ trav' = [trav EXCEPT !.done = (r.node = 0)]
    /\ UNCHANGED <<pc, heap, phy, reader_vars, other, res>>

NextTree == NodeAlloc \/ AddChild \/ Build \/ PrepareV2 \/ Step

SpecTree == InitTree /\ [][NextTree]_vars

(***************************************************************************)
(* Two clients that walk one tree, each with a cursor of its own from      *)
(* phy_cursor_alloc, in any interleaving; and a client that steps a cursor *)
(* nobody prepared.  Client 1 keeps its cursor in cur, its request in trav *)
(* and what it got in out; client 2 keeps them in other.                   *)
(***************************************************************************)
InitPair ==
    /\ newick = <<>>
    /\ ctx = NoCtx
    /\ heap = <<>>
    /\ phy_errno = 0
    /\ pc = "start"
    /\ phy = NullPhy
    /\ cpy = NullPhy
    /\ ub = "none"
    /\ kind = "pair"
    /\ cur = NoCursor
    /\ trav = NoTrav
    /\ out = <<>>
    /\ other = NoOther
    /\ res = NoRes

\* phy_node_alloc, for the smaller graphs the two clients walk
PairAlloc ==
    /\ pc \in {"start", "graph"}
    /\ Len(heap) < MaxPairNodes
    /\ Linked
    /\ heap' = node_new(heap)
    /\ pc' = "graph"
    /\ UNCHANGED <<phy, reader_vars, cursor_vars>>

\* the cursor object the k-th call of phy_cursor_alloc returns
AllocSame(k) == 1

\* phy_cursor_alloc: every call returns a block of its own
phy_cursor_alloc(k) == k

\* the cursor object at address a
CursorAt(a) == IF a = 1 THEN cur ELSE other.cur

TravOf(k) == IF k = 1 THEN trav ELSE other.trav
OutOf(k) == IF k = 1 THEN out ELSE other.out

\* client k has the cursor at a set to c, and now has asked t and got o
Stored(k, a, c, t, o) ==
    /\ cur' = IF a = 1 THEN c ELSE cur
    /\ trav' = IF k = 1 THEN t ELSE trav
    /\ out' = IF k = 1 THEN o ELSE out
    /\ other' = [cur |-> IF a = 2 THEN c ELSE other.cur,
                 trav |-> IF k = 2 THEN t ELSE other.trav,
                 out |-> IF k = 2 THEN o ELSE other.out]

\* client k calls phy_cursor_prepare_v2 with its cursor, once
PairPrepare(k) ==
    /\ pc \in {"built", "walk"}
    /\ TravOf(k).node = 0
    /\ \E node \in Nodes, visit \in {ALL_NODES, INTERNAL_NODES_ONLY},
          order \in {PREORDER, POSTORDER} :
         LET a == phy_cursor_alloc(k)
         IN  Stored(k, a,
                    phy_cursor_prepare_v2(heap, phy, node, CursorAt(a),
                                          visit, order),
                    [node |-> node, visit |-> visit, order |-> order,
                     done |-> FALSE],
                    <<>>)
    /\ pc' = "walk"
    /\ UNCHANGED <<heap, phy, reader_vars, res>>

\* client k calls phy_cursor_step on its cursor
PairStep(k) ==
    /\ pc = "walk"
    /\ TravOf(k).node # 0
    /\ Len(OutOf(k)) <= Len(heap)
    /\ LET a == phy_cursor_alloc(k)
       IN  \E r \in {phy_cursor_step(phy, CursorAt(a))} :
             Stored(k, a, r.cursor,
                    [TravOf(k) EXCEPT !.done = (r.node = 0)],
                    IF r.node # 0 THEN Append(OutOf(k), r.node)
                    ELSE OutOf(k))
    /\ UNCHANGED <<pc, heap, phy, reader_vars, res>>

\* what a pointer field of memory that was never written may hold: null,
\* the address of a node, or an address that is no node (UNINIT)
Garbage == {0, UNINIT} \cup Nodes

\* phy_cursor_step on a cursor that was never prepared: the null cursor,
\* the cursor embedded in the tree, or a cursor fresh from phy_cursor_alloc.
\* The fields of the last two were never written: next and end hold any
\* value, and so does the tree pointer the step reads when next is neither
\* null nor end.
StepUnprepared ==
    /\ pc = "built"
    /\ \E which \in {"null", "embedded", "alloc"} :
         IF which = "null"
         THEN /\ res' = [op |-> "step", cursor |-> which, node |-> 0]
              /\ pc' = "stepped"
              /\ UNCHANGED <<phy, cur, ub>>
         ELSE \E next \in Garbage, end \in Garbage :
                LET c == IF which = "embedded" THEN phy.cursor ELSE cur
                    wild == next # 0 /\ next # end
                    r == phy_cursor_step(
                             phy, [c EXCEPT !.next = next, !.end = end])
                IN  /\ c.next = UNINIT /\ c.end = UNINIT
                    /\ res' = [op |-> "step", cursor |-> which,
                               node |-> IF wild THEN 0 ELSE r.node]
                    /\ pc' = IF wild THEN "crashed" ELSE "stepped"
                    /\ ub' = IF wild THEN "uninit" ELSE "none"
                    /\ phy' = IF which = "embedded" /\ ~wild
                              THEN [phy EXCEPT !.cursor = r.cursor] ELSE phy
                    /\ cur' = IF which = "alloc" /\ ~wild
                              THEN r.cursor ELSE cur
    /\ UNCHANGED <<newick, ctx, heap, phy_errno, cpy, kind,
                   trav, out, other>>

NextPair ==
    \/ PairAlloc \/ AddChild \/ Build
    \/ \E k \in {1, 2} : PairPrepare(k)
    \/ \E k \in {1, 2} : PairStep(k)
    \/ StepUnprepared

SpecPair == InitPair /\ [][NextPair]_vars

(***************************************************************************)
(* A client that reads a tree with labelled tips from a Newick string and  *)
(* calls one operation on it.  The strings are the ordered trees over the  *)
(* first tips of TipNames, with every group of two or more successive tips *)
(* as a possible clade, written without branch lengths or with the length  *)
(* i + j on the node above the tips i..j; and the string Example.          *)
(***************************************************************************)
TipNames == <<"A", "B", "C", "D", "E", "F">>

\* the node above the tips i..j, with its length when w
WithLen(w, s, i, j) == IF w THEN s \o <<":">> \o DigitsOf(i + j) ELSE s

RECURSIVE Subtrees(_, _, _)
RECURSIVE Groups(_, _, _, _)
\* the texts of the subtrees whose tips are i..j
Subtrees(w, i, j) ==
    IF i = j THEN {<<TipNames[i]>>}
    ELSE {<<"(">> \o g \o <<")">> : g \in Groups(w, i, j, 2)}

\* the texts of the lists of at least need subtrees whose tips are i..j
Groups(w, i, j, need) ==
    (IF need <= 1 THEN {WithLen(w, s, i, j) : s \in Subtrees(w, i, j)}
     ELSE {})
    \cup UNION {{WithLen(w, s, i, m) \o <<",">> \o g :
                   s \in Subtrees(w, i, m),
                   g \in Groups(w, m + 1, j, need - 1)} :
                m \in i..(j - 1)}

Example ==
    <<"(", "(", "A", ":", "1", ",", "B", ":", "2", ")", "N", "1", ":", "3",
      ",", "(", "C", ":", "1", ",", "D", ":", "1", ")", "N", "2", ":", "1",
      ")", ";">>

Inputs ==
    {Example}
    \cup UNION {{s \o <<";">> : s \in Subtrees(w, 1, n)} :
                  w \in BOOLEAN, n \in 2..MaxTips}

InitOps ==
    /\ newick \in Inputs
    /\ ctx = NoCtx
    /\ heap = <<>>
    /\ phy_errno = 0
    /\ pc = "start"
    /\ phy = NullPhy
    /\ cpy = NullPhy
    /\ ub = "none"
    /\ kind = "ops"
    /\ cur = NoCursor
    /\ trav = NoTrav
    /\ out = <<>>
    /\ other = NoOther
    /\ res = NoRes

\* phy_read_newickstr on the whole string
ReadTree ==
    /\ pc = "start"
    /\ \E lucky \in BOOLEAN :
         \E f \in {phy_read_newickstr(heap, phy_errno, newick, lucky)} :
             /\ heap' = f.heap
             /\ phy_errno' = f.errno
             /\ phy' = f.phy
             /\ ub' = f.ub
             /\ pc' = IF f.crash THEN "crashed"
                      ELSE IF f.phy = NullPhy THEN "failed" ELSE "built"
    /\ UNCHANGED <<newick, ctx, cpy, kind, cursor_vars>>

\* phy_node_mrca
Mrca ==
    /\ pc = "built"
    /\ \E a \in Nodes, b \in Nodes :
         res' = [op |-> "mrca", a |-> a, b |-> b,
                 node |-> phy_node_mrca(heap, phy, a, b)]
    /\ pc' = "done"
    /\ UNCHANGED <<newick, ctx, heap, phy_errno, phy, cpy, ub, kind,
                   cur, trav, out, other>>

\* phy_node_spanning_pair
SpanningPair ==
    /\ pc = "built"
    /\ \E node \in Nodes :
         \E s \in {phy_node_spanning_pair(heap, node)} :
           res' = [op |-> "span", node |-> node, a |-> s.a, b |-> s.b]
    /\ pc' = "done"
    /\ UNCHANGED <<newick, ctx, heap, phy_errno, phy, cpy, ub, kind,
                   cur, trav, out, other>>

\* the members of the set s of nodes, as an array
RECURSIVE ArrayOf(_)
ArrayOf(s) ==
    IF s = {} THEN <<>>
    ELSE LET n == CHOOSE x \in s : \A y \in s : x <= y
         IN  <<n>> \o ArrayOf(s \ {n})

\* phy_extract_subtree of a set of tips of the tree
ExtractSubtree ==
    /\ pc = "built"
    /\ \E keep \in SUBSET {n \in Nodes : heap[n].ndesc = 0} :
         \E f \in {phy_extract_subtree(heap, Cardinality(keep),
                                       ArrayOf(keep), phy)} :
           /\ heap' = f.heap
           /\ cpy' = f.phy
           /\ ub' = f.ub
           /\ pc' = IF f.crash THEN "crashed" ELSE "done"
           /\ res' = [op |-> "sub", tips |-> keep]
    /\ UNCHANGED <<newick, ctx, phy_errno, phy, kind,
                   cur, trav, out, other>>

\* phy_extract_clade on a node of the tree
ExtractClade ==
    /\ pc = "built"
    /\ \E node \in Nodes, lucky \in BOOLEAN, wlucky \in BOOLEAN :
         \E f \in {phy_extract_clade(heap, phy_errno, node, lucky, wlucky)} :
           /\ heap' = f.heap
           /\ phy_errno' = f.errno
           /\ cpy' = f.phy
           /\ ub' = f.ub
           /\ pc' = IF f.crash THEN "crashed" ELSE "done"
           /\ res' = [op |-> "clade", node |-> node]
    /\ UNCHANGED <<newick, ctx, phy, kind, cur, trav, out, other>>

\* phy_reroot on a node of the tree
Reroot ==
    /\ pc = "built"
    /\ \E node \in Nodes, overwrite \in BOOLEAN,
          lucky \in BOOLEAN, wlucky \in BOOLEAN :
         \E f \in {phy_reroot(heap, phy_errno, node, phy, overwrite,
                              lucky, wlucky)} :
           /\ heap' = f.heap
           /\ phy_errno' = f.errno
           /\ phy' = f.in
           /\ cpy' = f.out
           /\ ub' = f.ub
           /\ pc' = IF f.crash THEN "crashed" ELSE "done"
           /\ res' = [op |-> "reroot", node |-> node,
                      root |-> phy.root, ntip |-> phy.ntip,
                      nnode |-> phy.nnode,
                      ndesc |-> heap[phy.root].ndesc]
    /\ UNCHANGED <<newick, ctx, kind, cur, trav, out, other>>

\* phy_unroot on the tree, into the same pointer or another one
Unroot ==
    /\ pc = "built"
    /\ \E overwrite \in BOOLEAN, lucky \in BOOLEAN, wlucky \in BOOLEAN,
          olucky \in BOOLEAN :
         \E f \in {phy_unroot(heap, phy_errno, phy, overwrite,
                              lucky, wlucky, olucky)} :
           /\ heap' = f.heap
           /\ phy_errno' = f.errno
           /\ phy' = f.in
           /\ cpy' = f.out
           /\ ub' = f.ub
           /\ pc' = IF f.crash THEN "crashed" ELSE "done"
           /\ res' = [op |-> "unroot", root |-> phy.root,
                      ntip |-> phy.ntip, nnode |-> phy.nnode,
                      ndesc |-> heap[phy.root].ndesc]
    /\ UNCHANGED <<newick, ctx, kind, cur, trav, out, other>>

\* phy_node_swap on two nodes of the tree
Swap ==
    /\ pc = "built"
    /\ \E a \in Nodes, b \in Nodes :
         /\ heap' = phy_node_swap(heap, a, b)
         /\ res' = [op |-> "swap", a |-> a, b |-> b, before |-> heap]
    /\ pc' = "done"
    /\ UNCHANGED <<newick, ctx, phy_errno, phy, cpy, ub, kind, cur, trav,
                   out, other>>

\* the lists of nodes a client hands to phy_node_rotate
RotateLists ==
    UNION {[1..n -> Nodes] : n \in 1..MaxRotate}

\* phy_node_rotate on a list of nodes of the tree
Rotate ==
    /\ pc = "built"
    /\ \E nodes \in RotateLists :
         \E f \in {phy_node_rotate(heap, nodes, phy)} :
           /\ heap' = f.h
           /\ phy' = f.phy
           /\ ub' = IF f.crash THEN "null" ELSE "none"
           /\ pc' = IF f.crash THEN "crashed" ELSE "done"
           /\ res' = [op |-> "rotate", nodes |-> nodes, before |-> heap]
    /\ UNCHANGED <<newick, ctx, phy_errno, cpy, kind, cur, trav, out,
                   other>>

\* phy_ladderize runs in steps; res holds its locals p, d and sorted, and
\* the heap it was called on.
\* cursor = phy_cursor_prepare(phy, phy->root, INTERNAL_NODES_ONLY,
\*                             PREORDER);
LadderStart ==
    /\ pc = "built"
    /\ phy' = phy_cursor_prepare(heap, phy, phy.root, INTERNAL_NODES_ONLY,
                                 PREORDER)
    /\ res' = [op |-> "ladderize", p |-> 0, d |-> 0, sorted |-> 0,
               before |-> heap, perm |-> <<>>]
    /\ pc' = "ladder"
    /\ UNCHANGED <<newick, ctx, heap, phy_errno, cpy, ub, kind, cur, trav,
                   out, other>>

\* perm[i] is the index that the node now numbered i had before
PermOf(old, new, t) ==
    LET ns == {t.nodes[k] : k \in DOMAIN t.nodes} \cap (1..Len(new))
    IN  [i \in 0..(t.nnode - 1) |->
           IF \E n \in ns : new[n].index = i
           THEN old[CHOOSE n \in ns : new[n].index = i].index
           ELSE UNINIT]

\* while ((p = phy_cursor_step(cursor)) != 0): the next internal node, with
\* d at its first child, or the walk that renumbers the nodes when there is
\* none
LadderNext ==
    /\ pc = "ladder"
    /\ \E r \in {phy_cursor_step(phy, phy.cursor)} :
         IF r.node # 0
         THEN /\ phy' = [phy EXCEPT !.cursor = r.cursor]
              /\ res' = [res EXCEPT !.p = r.node,
                                    !.d = heap[r.node].lfdesc,
                                    !.sorted = 0]
              /\ pc' = "scan"
              /\ heap' = heap
         ELSE \E w \in {IndexWalk(heap, [phy EXCEPT !.cursor = r.cursor],
                                  phy.root, 0, 0, 0)} :
                /\ heap' = w.h
                /\ phy' = w.phy
                /\ res' = [res EXCEPT !.perm = PermOf(heap, w.h, w.phy)]
                /\ pc' = "done"
    /\ UNCHANGED <<newick, ctx, phy_errno, cpy, ub, kind, cur, trav, out,
                   other>>

\* one turn of while (d && d->next), or its end: the do loop starts over
\* when a swap was made and ends when none was
LadderScan ==
    /\ pc = "scan"
    /\ IF res.d # 0 /\ heap[res.d].next # 0
       THEN \E swap \in {heap[res.d].ndesc > heap[heap[res.d].next].ndesc} :
              /\ heap' = IF swap
                         THEN phy_node_swap(heap, res.d, heap[res.d].next)
                         ELSE heap
              /\ res' = [res EXCEPT !.sorted = IF swap THEN @ + 1 ELSE @,
                                    !.d = heap'[res.d].next]
              /\ pc' = "scan"
       ELSE /\ heap' = heap
            /\ IF res.sorted > 0
               THEN /\ res' = [res EXCEPT !.sorted = 0,
                                          !.d = heap[res.p].lfdesc]
                    /\ pc' = "scan"
               ELSE /\ res' = res
                    /\ pc' = "ladder"
    /\ UNCHANGED <<newick, ctx, phy_errno, phy, cpy, ub, kind, cur, trav,
                   out, other>>

\* the labels of the tips below n, n included, by the links of h
RECURSIVE LabelsFrom(_, _)
LabelsFrom(h, n) ==
    IF n = 0 THEN {}
    ELSE (IF h[n].lfdesc = 0 THEN {h[n].lab} ELSE {})
         \cup LabelsFrom(h, h[n].lfdesc) \cup LabelsFrom(h, h[n].next)

TipLabels(h, n) ==
    IF h[n].lfdesc = 0 THEN {h[n].lab} ELSE LabelsFrom(h, h[n].lfdesc)

\* the nodes reached from n by next-sibling links, n included
RECURSIVE Siblings(_, _)
Siblings(h, n) == IF n = 0 THEN {} ELSE {n} \cup Siblings(h, h[n].next)

\* the nodes reached from n by first-child and next-sibling links
RECURSIVE Below(_, _)
Below(h, n) ==
    IF n = 0 THEN {}
    ELSE {n} \cup Below(h, h[n].lfdesc) \cup Below(h, h[n].next)

\* a second phy_reroot, on the tree the first one returned into a pointer
\* of its own, on a node of that tree with the tips of a child of the root
\* of the first tree.  The nodes of that tree were released: what the call
\* reads of them is what they held (intact) or anything else, which ends
\* the run.
RerootBack ==
    /\ pc = "done" /\ res.op = "reroot" /\ cpy # NullPhy /\ cpy # phy
    /\ \E node \in Below(heap, heap[cpy.root].lfdesc), intact \in BOOLEAN,
          lucky \in BOOLEAN, wlucky \in BOOLEAN :
         /\ TipLabels(heap, node)
              \in {TipLabels(heap, c) :
                     c \in Siblings(heap, heap[phy.root].lfdesc)}
         /\ IF intact \/ \A n \in Below(heap, cpy.root) : Live(heap, n)
            THEN \E f \in {phy_reroot(heap, phy_errno, node, cpy, FALSE,
                                      lucky, wlucky)} :
                   /\ heap' = f.heap
                   /\ phy_errno' = f.errno
                   /\ cpy' = f.out
                   /\ ub' = f.ub
                   /\ pc' = IF f.crash THEN "crashed" ELSE "done"
            ELSE /\ pc' = "crashed"
                 /\ ub' = "uaf"
                 /\ UNCHANGED <<heap, phy_errno, cpy>>
         /\ res' = [op |-> "back", node |-> node, first |-> res.node]
    /\ UNCHANGED <<newick, ctx, phy, kind, cur, trav, out, other>>

NextOps ==
    ReadTree \/ Mrca \/ SpanningPair \/ ExtractSubtree \/ Reroot
    \/ RerootBack \/ Unroot \/ Swap \/ Rotate
    \/ LadderStart \/ LadderNext \/ LadderScan
    \/ ExtractClade \/ Duplicate

SpecOps == InitOps /\ [][NextOps]_vars

\* a tree is read and ladderized; a call of phy_ladderize that has a next
\* step takes it
NextLadder == ReadTree \/ LadderStart \/ LadderNext \/ LadderScan

SpecLadder ==
    InitOps /\ [][NextLadder]_vars /\ WF_vars(LadderNext \/ LadderScan)

(***************************************************************************)
(* A client that reads strings and asks for the error message, in any      *)
(* order.  out is the list of the calls that have returned: for a read the *)
(* string, whether a tree came back and the code the read by itself sets;  *)
(* for phy_errmsg the message.                                             *)
(***************************************************************************)
ErrInputs ==
    {<<"(", "A", ",", "A", ")", ";">>,
     <<"(", "A", ",", "A">>,
     <<"(", "A", ")", ";">>,
     <<"(", "A", "(", "A", ")", ";">>}

InitErr ==
    /\ newick = <<>>
    /\ ctx = NoCtx
    /\ heap = <<>>
    /\ phy_errno = 0
    /\ pc = "start"
    /\ phy = NullPhy
    /\ cpy = NullPhy
    /\ ub = "none"
    /\ kind = "err"
    /\ cur = NoCursor
    /\ trav = NoTrav
    /\ out = <<>>
    /\ other = NoOther
    /\ res = NoRes

\* phy_read_newickstr on one of the strings
ErrRead ==
    /\ pc \in {"start", "idle"}
    /\ Len(out) < MaxCalls
    /\ \E s \in ErrInputs, lucky \in BOOLEAN :
         \E f \in {phy_read_newickstr(heap, phy_errno, s, lucky)} :
           /\ newick' = s
           /\ heap' = f.heap
           /\ phy_errno' = f.errno
           /\ phy' = f.phy
           /\ ub' = f.ub
           /\ pc' = IF f.crash THEN "crashed" ELSE "idle"
           /\ out' = IF f.crash THEN out
                     ELSE Append(out,
                            [op |-> "read", ok |-> f.phy # NullPhy,
                             code |-> phy_read_newickstr(<<>>, 0, s,
                                                         lucky).errno])
    /\ UNCHANGED <<ctx, cpy, kind, cur, trav, other, res>>

\* phy_errmsg
Errmsg ==
    /\ pc \in {"start", "idle"}
    /\ Len(out) < MaxCalls
    /\ \E f \in {phy_errmsg(phy_errno)} :
         /\ phy_errno' = f.errno
         /\ out' = Append(out, [op |-> "errmsg", msg |-> f.msg])
    /\ pc' = "idle"
    /\ UNCHANGED <<newick, ctx, heap, phy, cpy, ub, kind, cur, trav, other,
                   res>>

NextErr == ErrRead \/ Errmsg

SpecErr == InitErr /\ [][NextErr]_vars

(***************************************************************************)
(* Notions the properties are stated with.                                 *)
(***************************************************************************)
Range(q) == {q[i] : i \in 1..Len(q)}

NoDup(q) == \A i, j \in 1..Len(q) : q[i] = q[j] => i = j

\* a is a proper ancestor of d
RECURSIVE IsAncestor(_, _, _)
IsAncestor(h, a, d) ==
    h[d].anc # 0 /\ (h[d].anc = a \/ IsAncestor(h, a, h[d].anc))

Descendants(h, n) == {d \in 1..Len(h) : IsAncestor(h, n, d)}

Passes(h, n, visit) == visit = ALL_NODES \/ h[n].ndesc # 0

\* the subtree of n, as far as the filter lets it through
Subtree(h, n, visit) ==
    {d \in Descendants(h, n) \cup {n} : Passes(h, d, visit)}

\* the bracket depth of the text s after its first i characters
RECURSIVE NoteDepth(_, _)
NoteDepth(s, i) ==
    IF i = 0 THEN 0
    ELSE LET d == NoteDepth(s, i - 1)
         IN  IF s[i] = "[" THEN d + 1
             ELSE IF s[i] = "]" /\ d > 0 THEN d - 1 ELSE d

\* character i of s is not part of a note
Outside(s, i) == NoteDepth(s, i - 1) = 0 /\ NoteDepth(s, i) = 0

HasNote(s) == \E i \in 1..Len(s) : s[i] = "["

\* the Newick grammar: (child,child,...)label[note]:length
At(s, i) == IF i \in 1..Len(s) THEN s[i] ELSE NUL

RECURSIVE SkipLabel(_, _)
SkipLabel(s, i) ==
    IF At(s, i) \in {":", ",", ")", ";", "[", "(", "]", NUL} \cup Whitespace
    THEN i ELSE SkipLabel(s, i + 1)

\* the position after the note that opens at i - 1, 0 if it never closes
RECURSIVE SkipNote(_, _, _)
SkipNote(s, i, depth) ==
    IF At(s, i) = NUL THEN 0
    ELSE IF s[i] = "[" THEN SkipNote(s, i + 1, depth + 1)
    ELSE IF s[i] = "]"
    THEN (IF depth = 1 THEN i + 1 ELSE SkipNote(s, i + 1, depth - 1))
    ELSE SkipNote(s, i + 1, depth)

\* the position after the number that starts at i, 0 if there is none
SkipNumber(s, i) ==
    LET a == IF At(s, i) \in {"-", "+"} THEN i + 1 ELSE i
        b == SpanDigits(s, a)
        c == IF At(s, b) = "." THEN SpanDigits(s, b + 1) ELSE b
        e == IF At(s, c + 1) \in {"-", "+"} THEN c + 2 ELSE c + 1
        f == IF At(s, c) = "e" THEN SpanDigits(s, e) ELSE c
    IN  IF b = a /\ (c = b \/ c = b + 1) THEN 0
        ELSE IF At(s, c) = "e" /\ f = e THEN 0
        ELSE f

SkipAttrs(s, i) ==
    LET a == SkipLabel(s, i)
        b == IF At(s, a) = "[" THEN SkipNote(s, a + 1, 1) ELSE a
    IN  IF b = 0 THEN 0
        ELSE IF At(s, b) = ":" THEN SkipNumber(s, b + 1) ELSE b

\* the position after the node that starts at i, 0 if there is none;
\* a group holds at least two children
RECURSIVE SkipNode(_, _)
RECURSIVE SkipGroup(_, _, _)
SkipGroup(s, i, k) ==
    LET e == SkipNode(s, i)
    IN  IF e = 0 THEN 0
        ELSE IF At(s, e) = "," THEN SkipGroup(s, e + 1, k + 1)
        ELSE IF At(s, e) = ")" /\ k + 1 >= 2 THEN e + 1
        ELSE 0

SkipNode(s, i) ==
    LET j == IF At(s, i) = "(" THEN SkipGroup(s, i + 1, 0) ELSE i
    IN  IF j = 0 THEN 0 ELSE SkipAttrs(s, j)

ValidNewick(s) ==
    s # <<>> /\ s[Len(s)] = ";" /\ SkipNode(s, 1) = Len(s)

\* n times the text t
RECURSIVE Repeat(_, _)
Repeat(t, n) == IF n <= 0 THEN <<>> ELSE t \o Repeat(t, n - 1)

\* the groups that s opens and does not close
RECURSIVE ParenBalance(_, _)
ParenBalance(s, i) ==
    IF i = 0 THEN 0
    ELSE ParenBalance(s, i - 1)
         + (IF Outside(s, i) /\ s[i] = "(" THEN 1
            ELSE IF Outside(s, i) /\ s[i] = ")" THEN -1 ELSE 0)

\* s is the start of a valid Newick string: it becomes one when each open
\* group is given one more child and closed
ValidStart(s) ==
    ValidNewick(s \o Repeat(<<",", ")">>, ParenBalance(s, Len(s)))
                  \o <<";">>)

\* the text read_newick has consumed
Consumed == SubSeq(newick, 1, ctx.cursor)

\* read_newick has returned
Returned == pc # "start" /\ ctx.site = "ret"

\* the nodes reached from n by first-child and next-sibling links
RECURSIVE CountFrom(_, _)
CountFrom(h, n) ==
    IF n = 0 THEN 0
    ELSE 1 + CountFrom(h, h[n].lfdesc) + CountFrom(h, h[n].next)

Reachable(h, root) == 1 + CountFrom(h, h[root].lfdesc)

(***************************************************************************)
(* C1: in a tree built from a connected graph with matching counts, and    *)
(* so in every tree read from a valid, balanced Newick string, the indices *)
(* are a bijection onto 0..nnode-1, tips have the indices below ntip,      *)
(* internal nodes those from ntip on, the root has index ntip and          *)
(* nodes[vseq[i]] is the node with index i.                                *)
(***************************************************************************)
WellIndexed(h, t) ==
    /\ ~t.oob
    /\ \A i \in 0..(t.nnode - 1) : t.nodes[i] \in 1..Len(h)
    /\ \A i, j \in 0..(t.nnode - 1) : t.nodes[i] = t.nodes[j] => i = j
    /\ {h[t.nodes[i]].index : i \in 0..(t.nnode - 1)} = 0..(t.nnode - 1)
    /\ \A i \in 0..(t.nnode - 1) :
         LET n == h[t.nodes[i]]
         IN  IF n.ndesc = 0 THEN n.index \in 0..(t.ntip - 1)
             ELSE n.index \in t.ntip..(t.nnode - 1)
    /\ h[t.root].index = t.ntip
    /\ \A i \in 0..(t.nnode - 1) :
         /\ t.vseq[i] \in 0..(t.nnode - 1)
         /\ h[t.nodes[t.vseq[i]]].index = i

C1_IndexBijection ==
    (pc = "built" /\ (kind = "graph" \/ ValidNewick(newick)))
        => WellIndexed(heap, phy)

(***************************************************************************)
(* C2: a PREORDER traversal from an internal node n, stepped until it      *)
(* returns nothing, yields n first and then exactly the descendants of n   *)
(* that pass the filter, each once and none before one of its ancestors;   *)
(* from the root that is nnode nodes, nnode-ntip for internal nodes only.  *)
(***************************************************************************)
C2_Preorder ==
    (pc = "walk" /\ trav.order = PREORDER /\ heap[trav.node].ndesc # 0) =>
        /\ NoDup(out)
        /\ Range(out) \subseteq Subtree(heap, trav.node, trav.visit)
        /\ out # <<>> => out[1] = trav.node
        /\ \A i, j \in 1..Len(out) :
             i < j => ~IsAncestor(heap, out[j], out[i])
        /\ trav.done =>
             /\ Range(out) = Subtree(heap, trav.node, trav.visit)
             /\ trav.node = phy.root =>
                  Len(out) = IF trav.visit = ALL_NODES THEN phy.nnode
                             ELSE phy.nnode - phy.ntip

C2_Witness ==
    /\ pc = "walk" /\ trav.order = PREORDER /\ trav.done
    /\ trav.visit = INTERNAL_NODES_ONLY
    /\ trav.node # phy.root
    /\ Len(out) >= 2

(***************************************************************************)
(* C3: a POSTORDER traversal yields the same set of nodes as the PREORDER  *)
(* traversal with the same start node and filter, ends with the start      *)
(* node, and returns a node only after all its descendants that pass the   *)
(* filter.                                                                 *)
(***************************************************************************)
\* the nodes a cursor yields when it is stepped until it returns nothing
RECURSIVE Drain(_, _, _, _)
Drain(t, c, acc, fuel) ==
    LET r == phy_cursor_step(t, c)
    IN  IF r.node = 0 \/ fuel = 0 THEN acc
        ELSE Drain(t, r.cursor, Append(acc, r.node), fuel - 1)

PreorderOf(h, t, node, visit) ==
    Drain(t, phy_cursor_prepare_v2(h, t, node, NoCursor, visit, PREORDER),
          <<>>, Len(h) + 1)

C3_Postorder ==
    (pc = "walk" /\ trav.order = POSTORDER) =>
        /\ NoDup(out)
        /\ \A j \in 1..Len(out) :
             \A d \in Descendants(heap, out[j]) :
               Passes(heap, d, trav.visit) =>
                 \E i \in 1..(j - 1) : out[i] = d
        /\ trav.done =>
             /\ Range(out)
                  = Range(PreorderOf(heap, phy, trav.node, trav.visit))
             /\ out # <<>> /\ out[Len(out)] = trav.node

C3_Witness ==
    /\ pc = "walk" /\ trav.order = POSTORDER /\ trav.done
    /\ trav.visit = ALL_NODES
    /\ trav.node # phy.root
    /\ Len(out) >= 3

(***************************************************************************)
(* C4: writing a tree read from a valid Newick string without notes and    *)
(* with positive branch lengths, and reading the text back (phy_duplicate) *)
(* gives a tree with the same topology, labels and counts, and the same    *)
(* branch lengths to the six decimal places that are written.              *)
(***************************************************************************)
\* the length v as its six written decimal places give it back
Written(v) == IF IsPos(v) THEN atof(FormatF(v)) ELSE Zero

\* the subtrees at a and b, and those at their later siblings, look alike
RECURSIVE SameFrom(_, _, _)
SameFrom(h, a, b) ==
    IF a = 0 \/ b = 0 THEN a = b
    ELSE /\ h[a].lab = h[b].lab
         /\ h[b].brlen = Written(h[a].brlen)
         /\ SameFrom(h, h[a].lfdesc, h[b].lfdesc)
         /\ SameFrom(h, h[a].next, h[b].next)

\* no node was given a length that is not positive
PositiveLengths(h, t) ==
    \A i \in 0..(t.nnode - 1) :
      h[t.nodes[i]].brlen = Zero \/ IsPos(h[t.nodes[i]].brlen)

\* phy_duplicate has been called
Duplicated ==
    pc \in {"dup", "dupfailed"} \/ (pc = "crashed" /\ phy # NullPhy)

C4_RoundTrip ==
    (/\ Duplicated
     /\ ValidNewick(newick) /\ ~HasNote(newick)
     /\ PositiveLengths(heap, phy)) =>
        /\ pc = "dup"
        /\ cpy.ntip = phy.ntip
        /\ cpy.nnode = phy.nnode
        /\ SameFrom(heap, phy.root, cpy.root)

(***************************************************************************)
(* C5: a string whose '(' and ')' before the terminating ';' do not        *)
(* balance gives no tree; the parser never returns a tree whose root has   *)
(* an ancestor or whose node count differs from the nodes reachable from   *)
(* the root.  Stated for the strings without notes.                        *)
(***************************************************************************)
C5_Balanced ==
    (pc = "built" /\ ~HasNote(newick)) =>
        /\ ParenBalance(newick, Len(newick)) = 0
        /\ heap[phy.root].anc = 0
        /\ Reachable(heap, phy.root) = phy.nnode

(***************************************************************************)
(* C6: when a ')' closes a group of fewer than two children the parse      *)
(* fails with error 3 (Unifurcation) and gives no tree, so that no tree    *)
(* read from a string has an internal node with fewer than two             *)
(* descendants.                                                            *)
(***************************************************************************)
\* the place of the first ')' of s that closes a group of one child, 0 if
\* there is none; stack holds the number of children of each open group
RECURSIVE UnaryScan(_, _, _)
UnaryScan(s, i, stack) ==
    IF i > Len(s) THEN 0
    ELSE IF ~Outside(s, i) THEN UnaryScan(s, i + 1, stack)
    ELSE IF s[i] = "(" THEN UnaryScan(s, i + 1, <<1>> \o stack)
    ELSE IF s[i] = "," /\ stack # <<>>
    THEN UnaryScan(s, i + 1, <<stack[1] + 1>> \o Tail(stack))
    ELSE IF s[i] = ")" /\ stack # <<>>
    THEN (IF stack[1] < 2 THEN i ELSE UnaryScan(s, i + 1, Tail(stack)))
    ELSE UnaryScan(s, i + 1, stack)

FirstUnary(s) == UnaryScan(s, 1, <<>>)

\* read_newick consumed a ')' that closes a group of one child, in a text
\* that is sound up to that ')'
ClosedUnary ==
    /\ Returned
    /\ FirstUnary(Consumed) # 0
    /\ ValidStart(SubSeq(Consumed, 1, FirstUnary(Consumed) - 1))

C6_Unifurcation ==
    /\ ClosedUnary => (ctx.ret = 0 /\ phy_errno = 3)
    /\ pc = "built" =>
          \A n \in Descendants(heap, phy.root) \cup {phy.root} :
            heap[n].ndesc # 1

(***************************************************************************)
(* C7: a string such as "(A,B;", which lacks only the ')' of the groups    *)
(* open at the terminator, gives no tree and error 4 (MalformedInput).     *)
(***************************************************************************)
\* s, which ends with ';', with its open groups closed before the ';'
Closed(s) ==
    SubSeq(s, 1, Len(s) - 1)
        \o Repeat(<<")">>, ParenBalance(s, Len(s))) \o <<";">>

\* read_newick met the terminator with a group open
Unclosed ==
    /\ Returned
    /\ ctx.cursor >= 1 /\ newick[ctx.cursor] = ";"
    /\ ~HasNote(Consumed)
    /\ ParenBalance(Consumed, ctx.cursor) > 0
    /\ ValidNewick(Closed(Consumed))

C7_Unclosed == Unclosed => (ctx.ret = 0 /\ phy_errno = 4)

(***************************************************************************)
(* C8: a '(' that is not in a note and follows a ')' or the ']' of a note  *)
(* (it neither follows '(' or ',' nor is met while a label or a branch     *)
(* length is read) makes the parse fail with error 4 (MalformedInput).     *)
(***************************************************************************)
\* read_newick consumed such a '(', in a text that is sound up to it
StrayParen ==
    /\ Returned
    /\ \E i \in 2..ctx.cursor :
         /\ newick[i] = "(" /\ Outside(Consumed, i)
         /\ newick[i - 1] \in {")", "]"}
         /\ ValidStart(SubSeq(Consumed, 1, i - 1))

C8_StrayParen == StrayParen => (ctx.ret = 0 /\ phy_errno = 4)

(***************************************************************************)
(* C9: when the parse fails after nodes were allocated, the cleanup        *)
(* releases every allocated node once and takes no undefined step.         *)
(***************************************************************************)
\* phy_read_newickstr has run cleanup
CleanedUp ==
    /\ pc \in {"failed", "crashed"}
    /\ ctx.site = "ret" /\ ctx.ret = 0 /\ ctx.root # 0
    /\ phy = NullPhy

C9_Cleanup ==
    CleanedUp =>
        /\ ub = "none"
        /\ \A n \in 1..Len(heap) : heap[n].st = "freed"

(***************************************************************************)
(* C10: once read_note has read the ']' that closes a note, the parse goes *)
(* on at the character after that ']': read_note consumes nothing more.    *)
(***************************************************************************)
C10_NoteEnd ==
    [][(ctx.site = "note" /\ ctx.opened = 0 /\ ctx'.site = "brlen0")
           => ctx'.cursor = ctx.cursor]_vars

(***************************************************************************)
(* C11: the writer puts a non-empty note, wrapped in '[' and ']', after    *)
(* the label and before the branch length, so that phy_duplicate of a tree *)
(* that carries notes gives a tree with the same labels and notes.         *)
(***************************************************************************)
\* some node of the tree carries a non-empty note
CarriesNote(h, t) ==
    \E i \in 0..(t.nnode - 1) :
      t.nodes[i] \in 1..Len(h) /\ h[t.nodes[i]].note \notin {NullStr, <<>>}

\* the text of a note, the null note and the empty note alike
NoteText(n) == IF n.note = NullStr THEN <<>> ELSE n.note

\* the subtrees at a and b, and those at their later siblings, carry the
\* same labels and notes
RECURSIVE SameNotes(_, _, _)
SameNotes(h, a, b) ==
    IF a = 0 \/ b = 0 THEN a = b
    ELSE /\ h[a].lab = h[b].lab
         /\ NoteText(h[a]) = NoteText(h[b])
         /\ SameNotes(h, h[a].lfdesc, h[b].lfdesc)
         /\ SameNotes(h, h[a].next, h[b].next)

C11_NoteRoundTrip ==
    (/\ Duplicated
     /\ heap[phy.root].anc = 0
     /\ Reachable(heap, phy.root) = phy.nnode
     /\ CarriesNote(heap, phy)) =>
        /\ pc = "dup"
        /\ SameNotes(heap, phy.root, cpy.root)

(***************************************************************************)
(* C12: once phy_cursor_step has returned the boundary node of the         *)
(* traversal, every later step returns no node, until the cursor is        *)
(* prepared again.                                                         *)
(***************************************************************************)
\* the boundary node of the traversal the client asked for: the node the
\* prepare stores in the end field of the cursor
Boundary ==
    phy_cursor_prepare_v2(heap, phy, trav.node, NoCursor,
                          trav.visit, trav.order).end

\* the boundary node has been returned since the prepare
BoundaryReturned == pc = "walk" /\ Boundary \in Range(out)

C12_Exhausted == [][(BoundaryReturned /\ Step) => out' = out]_vars

C12_Witness ==
    /\ BoundaryReturned
    /\ trav.done
    /\ Len(out) >= 3
    /\ trav.node # phy.root

(***************************************************************************)
(* C13: the first step of a cursor that was never prepared returns no      *)
(* node: for the null cursor, for the cursor embedded in a tree that       *)
(* phy_build has just returned, and for a cursor fresh from                *)
(* phy_cursor_alloc.                                                       *)
(***************************************************************************)
\* an unprepared cursor has been stepped
SteppedUnprepared == pc \in {"stepped", "crashed"} /\ res.op = "step"

C13_Unprepared ==
    SteppedUnprepared => (pc = "stepped" /\ res.node = 0)

(***************************************************************************)
(* C14: two traversals of one tree, each on a cursor of its own prepared   *)
(* with phy_cursor_prepare_v2, stepped in any interleaving, each yield the *)
(* sequence of nodes they yield alone; a prepare or a step of one client   *)
(* changes neither the cursor of the other client, nor the embedded        *)
(* cursor, nor any node or array of the tree.                              *)
(***************************************************************************)
\* the nodes the traversal t yields when nothing else goes on
Alone(t) ==
    Drain(phy, phy_cursor_prepare_v2(heap, phy, t.node, NoCursor,
                                     t.visit, t.order),
          <<>>, Len(heap) + 1)

IsPrefix(p, q) == Len(p) <= Len(q) /\ p = SubSeq(q, 1, Len(p))

\* client k has got so far what it gets alone
AsAlone(k) ==
    TravOf(k).node # 0 =>
        /\ IsPrefix(OutOf(k), Alone(TravOf(k)))
        /\ TravOf(k).done => OutOf(k) = Alone(TravOf(k))

\* the cursor of the client that is not k
CursorOfOther(k) == IF k = 1 THEN other.cur ELSE cur

C14_Independent ==
    /\ [](pc = "walk" => (AsAlone(1) /\ AsAlone(2)))
    /\ [][\A k \in {1, 2} :
            (PairPrepare(k) \/ PairStep(k)) =>
                /\ CursorOfOther(k)' = CursorOfOther(k)
                /\ phy' = phy
                /\ heap' = heap]_vars

\* both clients are in the middle of their traversals, which differ
C14_Witness ==
    /\ pc = "walk"
    /\ out # <<>> /\ ~trav.done /\ cur.next # 0
    /\ other.out # <<>> /\ ~other.trav.done /\ other.cur.next # 0
    /\ trav.order = PREORDER /\ other.trav.order = POSTORDER
    /\ out # other.out

(***************************************************************************)
(* C15: phy_node_mrca returns the deepest node that is an ancestor of, or  *)
(* equal to, both a and b: a when a is an ancestor of b, b when b is an    *)
(* ancestor of a, a for mrca(a, a); and mrca(a, b) = mrca(b, a).           *)
(***************************************************************************)
AncOrSelf(h, n) == {n} \cup {x \in 1..Len(h) : IsAncestor(h, x, n)}

\* the deepest node that is an ancestor of, or equal to, both a and b
DeepestCommon(h, a, b) ==
    LET common == AncOrSelf(h, a) \cap AncOrSelf(h, b)
    IN  CHOOSE c \in common : \A d \in common : d \in AncOrSelf(h, c)

C15_Mrca ==
    (pc = "done" /\ res.op = "mrca") =>
        /\ res.node = DeepestCommon(heap, res.a, res.b)
        /\ res.node = phy_node_mrca(heap, phy, res.b, res.a)

(***************************************************************************)
(* C16: for an internal node n of a built tree with distinct tip labels,   *)
(* phy_node_spanning_pair gives the label of the tip reached from n by     *)
(* first-child links and the label of the tip that is the last descendant  *)
(* of n in preorder; the two tips are distinct and n is their most recent  *)
(* common ancestor.  For a tip both labels are its own.                    *)
(***************************************************************************)
\* the tip reached from n by first-child links
RECURSIVE FirstChildTip(_, _)
FirstChildTip(h, n) ==
    IF h[n].lfdesc = 0 THEN n ELSE FirstChildTip(h, h[n].lfdesc)

\* the tip that is the last descendant of n in preorder
RECURSIVE LastChildTip(_, _)
LastChildTip(h, n) ==
    IF h[n].lfdesc = 0 THEN n ELSE LastChildTip(h, LastSib(h, h[n].lfdesc))

Tips(h) == {n \in 1..Len(h) : h[n].ndesc = 0}

\* the tips carry labels, no two the same
DistinctTips(h) ==
    \A x, y \in Tips(h) :
      h[x].lab # NullStr /\ (h[x].lab = h[y].lab => x = y)

C16_SpanningPair ==
    (pc = "done" /\ res.op = "span" /\ DistinctTips(heap)) =>
        LET n == res.node
            x == FirstChildTip(heap, n)
            y == LastChildTip(heap, n)
        IN  /\ res.a = heap[x].lab
            /\ res.b = heap[y].lab
            /\ heap[n].ndesc # 0 =>
                 /\ x # y
                 /\ DeepestCommon(heap, x, y) = n

C16_Witness ==
    /\ pc = "done" /\ res.op = "span" /\ DistinctTips(heap)
    /\ res.node # phy.root
    /\ heap[res.node].ndesc >= 2
    /\ heap[heap[res.node].lfdesc].ndesc # 0
    /\ res.a # res.b

(***************************************************************************)
(* C17: for every set of at least two distinct tips of a tree, the tree    *)
(* phy_extract_subtree returns has no node with exactly one descendant,    *)
(* has exactly the requested tips as its tips (the same labels, ntip the   *)
(* number requested), and its nnode is the number of nodes reachable from  *)
(* its root.                                                               *)
(***************************************************************************)
\* the nodes reached from n by first-child and next-sibling links
RECURSIVE ReachSet(_, _)
ReachSet(h, n) ==
    IF n = 0 THEN {}
    ELSE {n} \cup ReachSet(h, h[n].lfdesc) \cup ReachSet(h, h[n].next)

TreeNodes(h, root) == {root} \cup ReachSet(h, h[root].lfdesc)

\* the children of n, by its links
ChildSet(h, n) == {c \in 1..Len(h) : Live(h, c) /\ h[c].anc = n}

\* phy_extract_subtree has returned a tree for two or more tips
Extracted ==
    pc = "done" /\ res.op = "sub" /\ Cardinality(res.tips) >= 2

C17_Subtree ==
    Extracted =>
        LET made == TreeNodes(heap, cpy.root)
        IN  /\ \A n \in made :
                 /\ Live(heap, n)
                 /\ heap[n].ndesc # 1
                 /\ Cardinality(ChildSet(heap, n) \cap made) = heap[n].ndesc
            /\ cpy.ntip = Cardinality(res.tips)
            /\ Cardinality({n \in made : heap[n].ndesc = 0}) = cpy.ntip
            /\ {heap[n].lab : n \in {m \in made : heap[m].ndesc = 0}}
                 = {heap[n].lab : n \in res.tips}
            /\ cpy.nnode = Cardinality(made)
            /\ cpy.nnode = Reachable(heap, cpy.root)

\* the tips kept leave an internal node of the source with one child
C17_Witness ==
    /\ Extracted
    /\ Cardinality(res.tips) < phy.ntip
    /\ cpy.nnode + (phy.ntip - cpy.ntip) < phy.nnode
    /\ cpy.nnode > 3

(***************************************************************************)
(* C18: for every two tips phy_extract_subtree retains, the branch lengths *)
(* on the path between them in the returned tree add up to the same as on  *)
(* the path between the two tips in the source tree.                       *)
(***************************************************************************)
\* the sum of the branch lengths from n up to its ancestor top
RECURSIVE LengthUp(_, _, _)
LengthUp(h, n, top) ==
    IF n = top THEN Zero
    ELSE Add(h[n].brlen, LengthUp(h, h[n].anc, top))

PathLength(h, a, b) ==
    LET m == DeepestCommon(h, a, b)
    IN  Add(LengthUp(h, a, m), LengthUp(h, b, m))

\* the tip of the returned tree that stands for the tip n of the source
CopyOf(n) ==
    CHOOSE c \in TreeNodes(heap, cpy.root) :
      heap[c].ndesc = 0 /\ heap[c].lab = heap[n].lab

C18_PathLength ==
    Extracted =>
        \A a, b \in res.tips :
          PathLength(heap, CopyOf(a), CopyOf(b)) = PathLength(heap, a, b)

\* a node with a length was spliced out of a path between two tips kept
C18_Witness ==
    /\ Extracted
    /\ cpy.nnode + (phy.ntip - cpy.ntip) < phy.nnode
    /\ \E a, b \in res.tips :
         /\ PathLength(heap, a, b) # Zero
         /\ heap[CopyOf(a)].brlen # heap[a].brlen
         /\ heap[CopyOf(a)].anc # cpy.root

(***************************************************************************)
(* C19: from the tree "((A:1,B:2)N1:3,(C:1,D:1)N2:1);", extracting the     *)
(* tips other than A gives a tree of three tips with the shape of          *)
(* "(B,(C:1,D:1):1);" in which the length of B is the sum of the lengths   *)
(* of B and of N1, which was spliced out: 2 + 3 = 5 (the claim as made     *)
(* says 3).                                                                *)
(***************************************************************************)
\* the nodes of the source tree
SourceNodes == {phy.nodes[i] : i \in 0..(phy.nnode - 1)}

\* the tips other than A of the Example were extracted
DroppedA ==
    /\ pc = "done" /\ res.op = "sub" /\ newick = Example
    /\ res.tips = {n \in SourceNodes :
                     heap[n].ndesc = 0 /\ heap[n].lab # <<"A">>}

\* the node n of the returned tree is a tip with this label and length
IsTip(n, lab, len) ==
    /\ heap[n].ndesc = 0 /\ heap[n].lfdesc = 0
    /\ heap[n].lab = <<lab>>
    /\ heap[n].brlen = [m |-> len, x |-> 0]

\* the returned tree is (B:len,(C:1,D:1):1);
ExampleResult(len) ==
    LET root == heap[cpy.root]
        b == root.lfdesc
        n2 == heap[b].next
        c == heap[n2].lfdesc
        d == heap[c].next
    IN  /\ cpy.ntip = 3 /\ cpy.nnode = 5
        /\ root.ndesc = 2 /\ root.anc = 0
        /\ IsTip(b, "B", len)
        /\ heap[n2].ndesc = 2 /\ heap[n2].next = 0
        /\ heap[n2].brlen = [m |-> 1, x |-> 0]
        /\ IsTip(c, "C", 1)
        /\ IsTip(d, "D", 1) /\ heap[d].next = 0

C19_ExampleAsClaimed == DroppedA => ExampleResult(3)

C19_Example == DroppedA => ExampleResult(5)

C19_Witness == DroppedA /\ cpy # NullPhy /\ cpy.ntip = 3

(***************************************************************************)
(* C20: for every node other than the root, the tree phy_reroot returns    *)
(* has the ntip of the input; the nnode of the input when the root of the  *)
(* input has exactly two children and one more when it has more than two;  *)
(* its root has exactly two children and every internal node of it has two *)
(* descendants or more.                                                    *)
(***************************************************************************)
\* phy_reroot was called on a node other than the root
Rerooted ==
    /\ pc \in {"done", "crashed"} /\ res.op = "reroot"
    /\ res.node # res.root

C20_Reroot ==
    Rerooted =>
        /\ pc = "done"
        /\ cpy.ntip = res.ntip
        /\ cpy.nnode = res.nnode + (IF res.ndesc > 2 THEN 1 ELSE 0)
        /\ \A n \in TreeNodes(heap, cpy.root) :
             /\ Live(heap, n)
             /\ heap[n].ndesc = Cardinality(ChildSet(heap, n))
             /\ heap[n].ndesc = 0 \/ heap[n].ndesc >= 2
        /\ heap[cpy.root].ndesc = 2

(***************************************************************************)
(* C21: when phy_reroot returns a tree in *out, every node of that tree is *)
(* still allocated: no node reachable from its root or stored in its nodes *)
(* array was released during the call, in particular not when the          *)
(* intermediate duplicate was freed.                                       *)
(***************************************************************************)
\* the nodes in the nodes array of the tree t
ArrayNodes(t) == {t.nodes[i] : i \in 0..(t.nnode - 1)}

\* phy_reroot has returned a tree
RerootReturned ==
    pc = "done" /\ res.op = "reroot" /\ cpy # NullPhy

C21_ResultOwned ==
    RerootReturned =>
        \A n \in TreeNodes(heap, cpy.root) \cup ArrayNodes(cpy) :
          n \in 1..Len(heap) /\ Live(heap, n)

(***************************************************************************)
(* C22: rerooting a rooted tree on a node other than its root, and then    *)
(* rerooting the result on the node that subtends the split at the root of *)
(* the original tree, gives a tree with the same tip bipartitions (the     *)
(* same unrooted topology) as the original tree.                           *)
(***************************************************************************)
\* the bipartitions of the tip labels that the edges of the tree make
Bipartitions(h, root) ==
    LET all == TipLabels(h, root)
    IN  {{TipLabels(h, n), all \ TipLabels(h, n)} :
           n \in Below(h, h[root].lfdesc)}

\* a rooted tree was rerooted, and the result rerooted back
RerootedBack ==
    /\ pc \in {"done", "crashed"} /\ res.op = "back"
    /\ phy_isrooted(heap, phy) = 1

C22_RerootBack ==
    RerootedBack =>
        /\ pc = "done"
        /\ Bipartitions(heap, cpy.root) = Bipartitions(heap, phy.root)

(***************************************************************************)
(* C23: phy_unroot yields no tree exactly when the root of the input has   *)
(* more than two children (the input is unrooted already).  For a root     *)
(* with two children it yields a built tree with one node less and the     *)
(* same number of tips, in which the two children of the former root are   *)
(* merged, the branch lengths of both summed onto one of them.             *)
(***************************************************************************)
Unrooted == pc \in {"done", "crashed"} /\ res.op = "unroot"

\* the tree t is built: its nodes are allocated and its arrays hold the
\* reachable nodes, each once
BuiltTree(t) ==
    /\ t # NullPhy
    /\ \A n \in Below(heap, t.root) : Live(heap, n)
    /\ Cardinality(Below(heap, t.root)) = t.nnode
    /\ ArrayNodes(t) = Below(heap, t.root)
    /\ Cardinality({n \in Below(heap, t.root) : heap[n].lfdesc = 0}) = t.ntip

C23_Unroot ==
    Unrooted =>
        /\ pc = "done"
        /\ (cpy = NullPhy) <=> (res.ndesc > 2)
        /\ res.ndesc = 2 =>
             /\ BuiltTree(cpy)
             /\ cpy.nnode = res.nnode - 1
             /\ cpy.ntip = res.ntip

(***************************************************************************)
(* C24: phy_ladderize terminates on every built tree, and when it has      *)
(* returned the children of every internal node are in ascending order of  *)
(* ndesc, children with equal counts in the order they had, and every      *)
(* internal node has the children it had.                                  *)
(***************************************************************************)
\* the children of a node from c on, by at most k next links
RECURSIVE ChildList(_, _, _)
ChildList(h, c, k) ==
    IF c = 0 \/ k = 0 THEN <<>>
    ELSE <<c>> \o ChildList(h, h[c].next, k - 1)

Children(h, n) == ChildList(h, h[n].lfdesc, Len(h) + 1)

\* the positions of s in ascending order of ndesc, ties in order
Ladder(h, s) ==
    \A i, j \in 1..Len(s) : i < j => h[s[i]].ndesc <= h[s[j]].ndesc

\* t holds the elements of s, and those with equal ndesc in the order of s
StablePerm(h, s, t) ==
    /\ Len(s) = Len(t) /\ Range(s) = Range(t) /\ NoDup(t)
    /\ \A i, j \in 1..Len(s) :
         (i < j /\ h[s[i]].ndesc = h[s[j]].ndesc) =>
            \E k, l \in 1..Len(t) : k < l /\ t[k] = s[i] /\ t[l] = s[j]

Ladderized ==
    /\ pc = "done" /\ res.op = "ladderize"
    /\ \A n \in Below(heap, phy.root) :
         heap[n].lfdesc # 0 =>
           /\ Ladder(heap, Children(heap, n))
           /\ StablePerm(res.before, Children(res.before, n),
                         Children(heap, n))

C24_Ladderize == (pc = "ladder") ~> Ladderized

(***************************************************************************)
(* C25: phy_node_swap(a, b) on two children of one parent, adjacent or     *)
(* not, leaves the child sequence of the parent with a and b exchanged and *)
(* every other child in its place, as a doubly linked list that ends in    *)
(* null, in which no node is linked to itself and the first child of the   *)
(* parent is the new first; when a and b are not children of one parent    *)
(* nothing changes.                                                        *)
(***************************************************************************)
Swapped == pc = "done" /\ res.op = "swap"

\* s with the elements a and b exchanged
Exchange(s, a, b) ==
    [i \in 1..Len(s) |->
       IF s[i] = a THEN b ELSE IF s[i] = b THEN a ELSE s[i]]

\* the children in s are linked to one another in that order
LinkedAs(h, s) ==
    \A i \in 1..Len(s) :
      /\ h[s[i]].next = (IF i < Len(s) THEN s[i + 1] ELSE 0)
      /\ h[s[i]].prev = (IF i > 1 THEN s[i - 1] ELSE 0)
      /\ h[s[i]].next # s[i] /\ h[s[i]].prev # s[i]

SameParent(h, a, b) == h[a].anc # 0 /\ h[a].anc = h[b].anc

C25_Swap ==
    Swapped =>
        IF SameParent(res.before, res.a, res.b)
        THEN LET par == res.before[res.a].anc
                 s == Exchange(Children(res.before, par), res.a, res.b)
             IN  /\ LinkedAs(heap, s)
                 /\ heap[par].lfdesc = s[1]
        ELSE heap = res.before

(***************************************************************************)
(* C26: phy_node_rotate on a list of internal nodes reverses the order of  *)
(* the children of each listed node (a node listed twice ends in the order *)
(* it had) and leaves the parent and the descendant count of every node as *)
(* they were; afterwards the indices are a bijection onto 0..nnode-1 with  *)
(* the tips first and the root at ntip, and nodes, inodes and vseq         *)
(* describe the preorder walk of the new child order.                      *)
(***************************************************************************)
RECURSIVE PreFrom(_, _)
PreFrom(h, c) ==
    IF c = 0 THEN <<>>
    ELSE <<c>> \o PreFrom(h, h[c].lfdesc) \o PreFrom(h, h[c].next)

\* the preorder walk of the subtree of n
Preorder(h, n) == <<n>> \o PreFrom(h, h[n].lfdesc)

Reverse(s) == [i \in 1..Len(s) |-> s[Len(s) + 1 - i]]

\* how many times n stands in the list s
TimesIn(s, n) == Cardinality({i \in 1..Len(s) : s[i] = n})

\* the elements of s that are internal nodes, in order
RECURSIVE Inner(_, _)
Inner(h, s) ==
    IF s = <<>> THEN <<>>
    ELSE (IF h[Head(s)].ndesc # 0 THEN <<Head(s)>> ELSE <<>>)
         \o Inner(h, Tail(s))

\* the numbering and the arrays of the tree t are those of its preorder walk
Indexed(h, t) ==
    LET pre == Preorder(h, t.root)
        inn == Inner(h, pre)
    IN  /\ Len(pre) = t.nnode
        /\ {h[n].index : n \in Range(pre)} = 0..(t.nnode - 1)
        /\ \A n \in Range(pre) : (h[n].ndesc = 0) <=> (h[n].index < t.ntip)
        /\ h[t.root].index = t.ntip
        /\ \A i \in 1..Len(pre) :
             /\ t.nodes[i - 1] = pre[i]
             /\ t.vseq[h[pre[i]].index] = i - 1
        /\ \A j \in 1..Len(inn) :
             /\ t.inodes[j - 1] = inn[j]
             /\ h[inn[j]].index = t.ntip + j - 1

\* phy_node_rotate has returned from a call on internal nodes
Rotated ==
    /\ pc = "done" /\ res.op = "rotate"
    /\ \A i \in 1..Len(res.nodes) : res.before[res.nodes[i]].ndesc # 0

C26_Rotate ==
    Rotated =>
        /\ \A n \in Range(Preorder(res.before, phy.root)) :
             /\ heap[n].anc = res.before[n].anc
             /\ heap[n].ndesc = res.before[n].ndesc
             /\ Children(heap, n) =
                  (IF TimesIn(res.nodes, n) % 2 = 1
                   THEN Reverse(Children(res.before, n))
                   ELSE Children(res.before, n))
             /\ LinkedAs(heap, Children(heap, n))
        /\ Indexed(heap, phy)

\* two different internal nodes were rotated and the walk changed
C26_Witness ==
    /\ Rotated
    /\ Len(res.nodes) = 2 /\ res.nodes[1] # res.nodes[2]
    /\ Preorder(heap, phy.root) # Preorder(res.before, phy.root)

(***************************************************************************)
(* C27: after phy_build, and after phy_node_rotate and phy_ladderize have  *)
(* reordered the nodes, the lastvisit of every internal node is a tip and  *)
(* is the last node of the preorder walk of the subtree of that node in    *)
(* the child order the tree then has.                                      *)
(***************************************************************************)
Last(s) == s[Len(s)]

\* phy_build, phy_node_rotate or phy_ladderize has just returned
Walked ==
    \/ pc = "built"
    \/ Rotated
    \/ pc = "done" /\ res.op = "ladderize"

C27_LastVisit ==
    Walked =>
        \A n \in Range(Preorder(heap, phy.root)) :
          heap[n].ndesc # 0 =>
            /\ heap[n].lastvisit = Last(Preorder(heap, n))
            /\ heap[heap[n].lastvisit].ndesc = 0

\* a rotation gave the root another last descendant
C27_Witness ==
    /\ Rotated
    /\ heap[phy.root].lastvisit # res.before[phy.root].lastvisit
    /\ heap[phy.root].lastvisit = Last(Preorder(heap, phy.root))

(***************************************************************************)
(* C28: the error slot holds the code of the failure that came last.       *)
(* phy_errmsg returns the message of the most recent failure and clears    *)
(* the slot, so that a second phy_errmsg returns "no errors detected"; a   *)
(* call that succeeds does not clear the slot.                             *)
(***************************************************************************)
\* the call in out[1..i] that settles the slot: the last failed read or
\* phy_errmsg (0 when there is none)
RECURSIVE Settles(_)
Settles(i) ==
    IF i = 0 THEN 0
    ELSE IF out[i].op = "errmsg" \/ ~out[i].ok THEN i
    ELSE Settles(i - 1)

\* the code that is pending after the calls out[1..i]
Pending(i) ==
    LET j == Settles(i)
    IN  IF j = 0 THEN 0
        ELSE IF out[j].op = "errmsg" THEN 0
        ELSE out[j].code

MessageOf(e) ==
    IF e = 1 THEN PHY_ERR1 ELSE IF e = 2 THEN PHY_ERR2
    ELSE IF e = 3 THEN PHY_ERR3 ELSE IF e = 4 THEN PHY_ERR4
    ELSE "no errors detected"

C28_ErrorSlot ==
    (kind = "err" /\ pc = "idle") =>
        /\ phy_errno = Pending(Len(out))
        /\ \A i \in 1..Len(out) :
             /\ (out[i].op = "read" /\ ~out[i].ok) => out[i].code \in 1..4
             /\ out[i].op = "errmsg" =>
                  out[i].msg = MessageOf(Pending(i - 1))

\* two reads failed in different ways, a read succeeded, and then the
\* message of the second failure and "no errors detected" were returned
C28_Witness ==
    /\ kind = "err" /\ pc = "idle" /\ Len(out) = 5
    /\ out[1].op = "read" /\ ~out[1].ok /\ out[1].code = 4
    /\ out[2].op = "read" /\ ~out[2].ok /\ out[2].code = 3
    /\ out[3].op = "read" /\ out[3].ok
    /\ out[4].op = "errmsg" /\ out[4].msg = PHY_ERR3
    /\ out[5].op = "errmsg" /\ out[5].msg = "no errors detected"

(***************************************************************************)
(* C29: phy_reroot into a pointer other than the one of the input,         *)
(* phy_extract_clade, phy_extract_subtree and phy_duplicate leave the tree *)
(* they are handed as it was (the links, index, ndesc, label and length of *)
(* every node, the arrays, the counts, the root and the embedded cursor),  *)
(* and the tree they return has no node in common with it.                 *)
(***************************************************************************)
\* this step is a call of one of the four that returns a tree of its own
Derives ==
    /\ kind = "ops" /\ pc = "built" /\ cpy' # NullPhy
    /\ \/ pc' = "dup"
       \/ pc' = "done" /\ res'.op \in {"sub", "clade"}
       \/ pc' = "done" /\ res'.op = "reroot" /\ cpy' # phy'

C29_Frame ==
    [][Derives =>
         /\ phy' = phy
         /\ \A n \in SourceNodes : heap'[n] = heap[n]
         /\ (Below(heap', cpy'.root) \cup ArrayNodes(cpy'))
              \cap SourceNodes = {}]_vars

\* a clade below the root was extracted from a tree that stands as it was
C29_Witness ==
    /\ pc = "done" /\ res.op = "clade" /\ cpy # NullPhy
    /\ res.node # phy.root
    /\ \A n \in SourceNodes : Live(heap, n)
    /\ Below(heap, cpy.root) \cap SourceNodes = {}
    /\ heap[cpy.root].brlen = Zero /\ heap[res.node].brlen # Zero

(***************************************************************************)
(* C30: a traversal prepared with INTERNAL_NODES_ONLY never returns a tip, *)
(* whatever the start node and the order; when the start node is a tip the *)
(* traversal returns no node at all.                                       *)
(***************************************************************************)
C30_InternalOnly ==
    (pc = "walk" /\ trav.visit = INTERNAL_NODES_ONLY) =>
        /\ \A i \in 1..Len(out) : heap[out[i]].ndesc # 0
        /\ heap[trav.node].ndesc = 0 => out = <<>>

====
